---- MODULE Spec2Model ----
(***************************************************************************)
(* A model of the draft/produce engine of ise (src/core.ts, kept here as   *)
(* src/unnamed/part_000): deepClone, createDraft (the Proxy handler),      *)
(* finalizeDraft, produce and batchProduce, over an explicit heap of       *)
(* JavaScript objects, arrays and Proxy objects.                           *)
(*                                                                         *)
(* Values.  A primitive is a natural number; a reference to the heap node  *)
(* n is the negative number 0 - n.  Object keys are the numbers of Keys;   *)
(* array indices are 1-based (index i here is JavaScript's i - 1).         *)
(* Object.keys is taken in ascending key order.                            *)
(*                                                                         *)
(* Specifications.  Spec steps through one produce or batchProduce call,   *)
(* operation by operation.  The others take whole calls as steps:          *)
(* SpecChain (chains of produce calls, primitive states), SpecQueue        *)
(* (BatchQueue), SpecMemo (produceMemoized of core), SpecLru and SpecCache *)
(* (src/memo.ts: produceMemoized over the LRU Cache, and the Cache class). *)
(***************************************************************************)
EXTENDS Integers, Sequences, FiniteSets, TLC

\* Bounds of the model.
MaxOps == 2        \* draft operations performed by the recipes of one call
MaxRecipes == 2    \* recipes handed to one batchProduce call
MaxChain == 2      \* produce calls of one chain
MaxExec == 2       \* execute calls on one BatchQueue
MaxCalls == 3      \* produceMemoized calls of one behaviour
MaxCacheOps == 5   \* get, set, clear and produceMemoized calls on one Cache
maxSize == 2       \* options.maxSize of the Cache
ttl == 1              \* options.ttl of the cache with a time-to-live, in ticks
StackLimit == 10   \* nested finalize calls at which the call stack is exhausted

Keys == {1, 2}                  \* property names ("data"/"items", "name"/"count")
PrimWrites == {1}               \* primitives a recipe assigns or pushes
Deltas == {1, 2}                \* d in  draft.k += d
ErrMsgs == {"boom"}             \* messages of the errors recipes throw
\* property paths a recipe follows from its draft
Paths == {<<>>, <<1>>, <<2>>, <<1, 1>>}
\* paths read for the right-hand side of draft.k = draft.p
AliasSrc == {<<>>, <<1>>}
\* null and undefined among the primitives
Null == 8
Undefined == 9

VARIABLES
  heap,        \* the JavaScript heap: a sequence of nodes, node n at index n
  draftCache,  \* createDraft's WeakMap of the running call: node -> its Proxy
  pc,          \* "idle" | "recipe" | "returned" | "failed"
  mode,        \* "produce" | "batch": the function that was called
  state,       \* the state argument of the call
  draft,       \* the draft handed to the recipes
  result,      \* the snapshot the call returned (when pc = "returned")
  error,       \* the error the call threw (when pc = "failed")
  invoked,     \* the recipe invocations so far, in order: [recipe, draft], the
               \* index of the recipe in the array and the draft handed to it
  log,         \* the draft operations the recipes performed so far, in order
  thrown,      \* the error a recipe raised (NoError while none)
  raisedIn,    \* the index of the recipe that raised it (0 while none)
  clones,      \* number of deepClone(state) calls made by the call
  finalizes,   \* number of finalizeDraft calls made by the call
  orig,        \* the heap as it was when the call was made
  mheap,       \* an independent deep copy of the state, mutated the ordinary way
  edgesKept,   \* no operation so far replaced or removed an object-valued property
  snaps,       \* the whole calls made so far: [state, recipe] of each
  queues,      \* the BatchQueue objects: queue n is [state, queue]
  ret,         \* what the latest enqueue call returned (0: no call yet)
  enq,         \* the recipes handed to enqueue so far, in the order of the calls
  execd,       \* for each execute call so far, the recipes enqueued before it
  memoCache,   \* memoCache of core: state object -> (recipe text -> result)
  cache,       \* Cache.cache of memo.ts: key string -> value
  lru,         \* the list of CacheNodes from head to tail: the key of each node
  objectRefs,  \* Cache.objectRefs: object -> its identity token
  rnd,         \* the number of Math.random() calls made for tokens
  got,         \* what the latest Cache.get call returned
  trace        \* the Cache operations so far: [name, key, hit, size, lost]

coreVars == <<heap, draftCache, pc, mode, state, draft, result, error, invoked,
              log, thrown, raisedIn, clones, finalizes, orig, mheap, edgesKept>>
chainVars == <<snaps>>
queueVars == <<queues, ret, enq, execd>>
memoVars == <<memoCache>>
cacheVars == <<cache, lru, objectRefs, rnd, got, trace>>
extVars == <<chainVars, queueVars, memoVars, cacheVars>>
vars == <<coreVars, extVars>>

-----------------------------------------------------------------------------
\* Heap nodes and values.

Ref(n) == 0 - n
NodeOf(v) == 0 - v
IsObject(v) == v < 0      \* typeof v === 'object' && v !== null

PlainNode(kind, f) == [kind |-> kind, f |-> f, target |-> 0, frozen |-> FALSE]
ProxyNode(t) == [kind |-> "proxy", f |-> <<>>, target |-> t, frozen |-> FALSE]

\* The node whose own properties the value exposes: a Proxy without an ownKeys
\* trap exposes those of its target.
Under(h, v) == IF h[NodeOf(v)].kind = "proxy" THEN h[NodeOf(v)].target ELSE NodeOf(v)
IsArray(h, v) == h[Under(h, v)].kind = "arr"     \* Array.isArray sees through a Proxy
ShellKind(h, v) == IF IsArray(h, v) THEN "arr" ELSE "obj"   \* Array.isArray(v) ? [] : {}

RECURSIVE SortedSeq(_)
SortedSeq(S) ==
  IF S = {} THEN <<>>
  ELSE LET m == CHOOSE x \in S : \A y \in S : x <= y
       IN <<m>> \o SortedSeq(S \ {m})

ObjectKeys(h, v) == SortedSeq(DOMAIN h[Under(h, v)].f)

PutField(f, k, v) == IF k \in DOMAIN f THEN [f EXCEPT ![k] = v] ELSE (k :> v) @@ f
DelField(f, k) == [x \in (DOMAIN f) \ {k} |-> f[x]]

-----------------------------------------------------------------------------
\* deepClone (part_000:96-108).  cs = [heap, seen]; yields [v, cs].

\* A deepClone that hands back its argument.
deepCloneNone(cs, obj) == [v |-> obj, cs |-> cs]

\* A loop of deepClone that copies the references: result[key] = obj[key].
deepCloneShallow(cs, obj, r, keys) ==
  [cs EXCEPT !.heap[r].f = cs.heap[NodeOf(obj)].f]

RECURSIVE deepClone(_, _), deepCloneKeys(_, _, _, _)

\* result[key] = <the clone c of obj[key]>, then the remaining keys
deepClonePut(c, obj, r, keys) ==
  deepCloneKeys([c.cs EXCEPT !.heap[r].f = PutField(@, Head(keys), c.v)],
                obj, r, Tail(keys))

\* for (const key of Object.keys(obj)) result[key] = deepClone(obj[key], seen)
deepCloneKeys(cs, obj, r, keys) ==
  IF keys = <<>> THEN cs
  ELSE deepClonePut(deepClone(cs, cs.heap[NodeOf(obj)].f[Head(keys)]), obj, r, keys)

deepClone(cs, obj) ==
  IF ~IsObject(obj) THEN [v |-> obj, cs |-> cs]
  ELSE IF NodeOf(obj) \in DOMAIN cs.seen
    THEN [v |-> Ref(cs.seen[NodeOf(obj)]), cs |-> cs]
  ELSE [v |-> Ref(Len(cs.heap) + 1),
        cs |-> deepCloneKeys(
                 [cs EXCEPT !.heap = Append(@, PlainNode(ShellKind(cs.heap, obj), <<>>)),
                            !.seen = (NodeOf(obj) :> (Len(cs.heap) + 1)) @@ @],
                 obj, Len(cs.heap) + 1, ObjectKeys(cs.heap, obj))]

-----------------------------------------------------------------------------
\* createDraft and its Proxy handler (part_000:16-69).
\* ds is a record with the fields heap, draftCache, active and ovf (finalize
\* adds processed); the operators that return a value yield [v, ds].
\*
\* createDraft enters its value in draftCache only after it has copied the
\* value's properties, and copying the properties of a Proxy calls its get
\* trap, which calls createDraft for every object it finds that is not in
\* draftCache yet.  A cycle of Proxies that are not in draftCache therefore
\* recurses without end; JavaScript ends it with "RangeError: Maximum call
\* stack size exceeded".  active holds the values whose createDraft call is on
\* the stack; entering one of them again sets ovf, and every operator passes a
\* ds with ovf set on unchanged (the exception unwinds the stack).

DS(h, dc) == [heap |-> h, draftCache |-> dc, active |-> {}, ovf |-> FALSE]

RECURSIVE createDraft(_, _), handlerGet(_, _, _), Get(_, _, _), spread(_, _, _, _)

\* value[key] for any object value: through the get trap when value is a Proxy.
Get(ds, value, key) ==
  IF ds.heap[NodeOf(value)].kind = "proxy"
    THEN handlerGet(ds, NodeOf(value), key)
    ELSE [v |-> ds.heap[NodeOf(value)].f[key], ds |-> ds]

\* base[key] = <what value[key] gave: g>, then the remaining keys
spreadPut(g, value, b, keys) ==
  IF g.ds.ovf THEN g.ds
  ELSE spread([g.ds EXCEPT !.heap[b].f = PutField(@, Head(keys), g.v)],
              value, b, Tail(keys))

\* base = [...value] / { ...value }: the own properties of value, read one by one.
spread(ds, value, b, keys) ==
  IF keys = <<>> \/ ds.ovf THEN ds
  ELSE spreadPut(Get(ds, value, Head(keys)), value, b, keys)

\* const proxy = new Proxy(base, handler); draftCache.set(value, proxy)
newProxy(ds1, value, b) ==
  IF ds1.ovf THEN [v |-> value, ds |-> ds1]
  ELSE [v |-> Ref(Len(ds1.heap) + 1),
        ds |-> [ds1 EXCEPT !.heap = Append(@, ProxyNode(b)),
                           !.draftCache = (NodeOf(value) :> (Len(ds1.heap) + 1)) @@ @,
                           !.active = @ \ {NodeOf(value)}]]

createDraft(ds, value) ==
  IF ds.ovf \/ ~IsObject(value) THEN [v |-> value, ds |-> ds]
  ELSE IF NodeOf(value) \in DOMAIN ds.draftCache
    THEN [v |-> Ref(ds.draftCache[NodeOf(value)]), ds |-> ds]
  ELSE IF NodeOf(value) \in ds.active
    THEN [v |-> value, ds |-> [ds EXCEPT !.ovf = TRUE]]
  ELSE newProxy(spread([ds EXCEPT !.heap = Append(@, PlainNode(ShellKind(ds.heap, value), <<>>)),
                                  !.active = @ \cup {NodeOf(value)}],
                       value, Len(ds.heap) + 1, ObjectKeys(ds.heap, value)),
                value, Len(ds.heap) + 1)

\* return draftCache.get(v)
cachedDraft(ds1, v) ==
  IF ds1.ovf THEN [v |-> 0, ds |-> ds1]
  ELSE [v |-> Ref(ds1.draftCache[NodeOf(v)]), ds |-> ds1]

\* A get trap that wraps what it finds without looking into draftCache.
handlerGottenAnew(ds, v) ==
  IF ~IsObject(v) THEN [v |-> v, ds |-> ds]
  ELSE createDraft([ds EXCEPT !.draftCache = <<>>], v)

\* handler.get for a property that is not an Array.prototype method (lines 44-51);
\* v is Reflect.get(target, prop, receiver).
handlerGotten(ds, v) ==
  IF ~IsObject(v) THEN [v |-> v, ds |-> ds]
  ELSE IF NodeOf(v) \in DOMAIN ds.draftCache THEN cachedDraft(ds, v)
  ELSE cachedDraft(createDraft(ds, v).ds, v)

handlerGet(ds, p, prop) ==
  IF ds.ovf THEN [v |-> 0, ds |-> ds]
  ELSE handlerGotten(ds, ds.heap[ds.heap[p].target].f[prop])

\* target[prop] = <the draft c of the value>
handlerStore(c, target, prop) ==
  IF c.ds.ovf THEN c.ds
  ELSE [c.ds EXCEPT !.heap[target].f = PutField(@, prop, c.v)]

\* handler.set (lines 53-59).
handlerSet(ds, p, prop, value) ==
  handlerStore(createDraft(ds, value), ds.heap[p].target, prop)

\* handler.deleteProperty (lines 60-63).
handlerDelete(ds, p, prop) ==
  IF ds.ovf THEN ds
  ELSE [ds EXCEPT !.heap[ds.heap[p].target].f = DelField(@, prop)]

\* The function handler.get returns for an Array.prototype method of an array
\* target (lines 34-42): arrayMethod.apply(target, args) works on the target
\* itself, so its arguments are stored, and its elements are handed out, as
\* they are: not wrapped by createDraft.
arrayPush(ds, p, value) ==
  [ds EXCEPT !.heap[ds.heap[p].target].f = Append(@, value)]

\* splice(i, 1)
arraySplice(ds, p, i) ==
  [ds EXCEPT !.heap[ds.heap[p].target].f =
               SubSeq(@, 1, i - 1) \o SubSeq(@, i + 1, Len(@))]

\* forEach / find: the callback receives target[i] itself.
arrayElement(ds, p, i) == ds.heap[ds.heap[p].target].f[i]

\* item[key] = value does not raise: item is a Proxy (its target is a copy that
\* is never frozen) or an object that is not frozen.
Writable(h, item) == h[NodeOf(item)].kind = "proxy" \/ ~h[NodeOf(item)].frozen

\* item[key] = value on whatever the recipe holds: a trap call on a Proxy, a
\* plain store on any other object.
Put(ds, item, key, value) ==
  IF ds.heap[NodeOf(item)].kind = "proxy"
    THEN handlerSet(ds, NodeOf(item), key, value)
    ELSE [ds EXCEPT !.heap[NodeOf(item)].f = PutField(@, key, value)]

-----------------------------------------------------------------------------
\* finalizeDraft (part_000:72-94).  fs is a ds with the fields processed and
\* depth, the number of finalize calls on the stack.
\*
\* finalize reads value[key] through the get trap, and the trap makes a new
\* Proxy for every Proxy it finds stored in a target (a Proxy is never a key of
\* draftCache until it is wrapped itself).  When the stored Proxies form a
\* cycle, every level of the walk meets a Proxy made one level before: the
\* walk never ends, and JavaScript stops it with the RangeError.  A walk that
\* ends visits each value once, so its depth stays below the number of values;
\* StackLimit stands for the depth at which the stack is exhausted.

RECURSIVE finalize(_, _), finalizeKeys(_, _, _, _)

\* finalize(value[key], processed), g being what value[key] gave
finalizeGot(g) == finalize(g.ds, g.v)

\* result[key] = <the finalized c>, then the remaining keys
finalizePut(c, value, r, keys) ==
  IF c.fs.ovf THEN c.fs
  ELSE finalizeKeys([c.fs EXCEPT !.heap[r].f = PutField(@, Head(keys), c.v)],
                    value, r, Tail(keys))

\* for (const key of keys) result[key] = finalize(value[key], processed)
finalizeKeys(fs, value, r, keys) ==
  IF keys = <<>> \/ fs.ovf THEN fs
  ELSE finalizePut(finalizeGot(Get(fs, value, Head(keys))), value, r, keys)

\* A finalize that returns its result without freezing it.
finalizeThawed(fs2, value, r) ==
  IF fs2.ovf THEN [v |-> value, fs |-> fs2]
  ELSE [v |-> Ref(r), fs |-> [fs2 EXCEPT !.depth = @ - 1]]

\* return Object.freeze(result)
finalizeFreeze(fs2, value, r) ==
  IF fs2.ovf THEN [v |-> value, fs |-> fs2]
  ELSE [v |-> Ref(r), fs |-> [fs2 EXCEPT !.heap[r].frozen = TRUE, !.depth = @ - 1]]

\* A finalize that does not look its value up in processed.
finalizeAnew(fs, value) ==
  IF fs.ovf \/ ~IsObject(value) THEN [v |-> value, fs |-> fs]
  ELSE IF fs.depth >= StackLimit
    THEN [v |-> value, fs |-> [fs EXCEPT !.ovf = TRUE]]
  ELSE finalizeFreeze(
         finalizeKeys([fs EXCEPT !.heap = Append(@, PlainNode(ShellKind(fs.heap, value), <<>>)),
                                 !.depth = @ + 1],
                      value, Len(fs.heap) + 1, ObjectKeys(fs.heap, value)),
         value, Len(fs.heap) + 1)

finalize(fs, value) ==
  IF fs.ovf \/ ~IsObject(value) THEN [v |-> value, fs |-> fs]
  ELSE IF NodeOf(value) \in DOMAIN fs.processed
    THEN [v |-> Ref(fs.processed[NodeOf(value)]), fs |-> fs]
  ELSE IF fs.depth >= StackLimit
    THEN [v |-> value, fs |-> [fs EXCEPT !.ovf = TRUE]]
  ELSE finalizeFreeze(
         finalizeKeys([fs EXCEPT !.heap = Append(@, PlainNode(ShellKind(fs.heap, value), <<>>)),
                                 !.processed = (NodeOf(value) :> (Len(fs.heap) + 1)) @@ @,
                                 !.depth = @ + 1],
                      value, Len(fs.heap) + 1, ObjectKeys(fs.heap, value)),
         value, Len(fs.heap) + 1)

\* c is what finalize(draft, new WeakMap()) gave.
finalized(c) ==
  [v |-> c.v, ds |-> [heap |-> c.fs.heap, draftCache |-> c.fs.draftCache,
                      active |-> {}, ovf |-> c.fs.ovf]]

\* A finalizeDraft that gives nothing back for what is not an object.
finalizeDraftNone(ds, d) ==
  IF ~IsObject(d) THEN [v |-> Undefined, ds |-> ds]
  ELSE finalized(finalize([heap |-> ds.heap, draftCache |-> ds.draftCache,
                           active |-> {}, ovf |-> FALSE, processed |-> <<>>,
                           depth |-> 0], d))

\* [v, ds]; ds.ovf when the walk ended in the RangeError.
finalizeDraft(ds, d) ==
  IF ~IsObject(d) THEN [v |-> d, ds |-> ds]
  ELSE finalized(finalize([heap |-> ds.heap, draftCache |-> ds.draftCache,
                           active |-> {}, ovf |-> FALSE, processed |-> <<>>,
                           depth |-> 0], d))

-----------------------------------------------------------------------------
\* Recipes.  A recipe is caller code; what it does to its draft is a sequence
\* of operations, each following a property path from the draft:
\*   set       draft.path[key] = val                 (a primitive)
\*   add       draft.path[key] += val
\*   setNew    draft.path[key] = {}                  (an object of the caller)
\*   setAlias  draft.path[key] = draft.src
\*   delete    delete draft.path[key]
\*   push      draft.path.push(val)       pushNew   draft.path.push({})
\*   splice    draft.path.splice(idx, 1)
\*   iter      draft.path.forEach((item, i) => { if (i === idx) item[key] = val })

Cmd(op, path, key, idx, val, src) ==
  [op |-> op, path |-> path, key |-> key, idx |-> idx, val |-> val, src |-> src]

Cmds ==
  UNION {
    {Cmd("set", p, k, 0, v, <<>>) : k \in Keys, v \in PrimWrites}
      \cup {Cmd("add", p, k, 0, d, <<>>) : k \in Keys, d \in Deltas}
      \cup {Cmd("setNew", p, k, 0, 0, <<>>) : k \in Keys}
      \cup {Cmd("setAlias", p, k, 0, 0, q) : k \in Keys, q \in AliasSrc}
      \cup {Cmd("delete", p, k, 0, 0, <<>>) : k \in Keys}
      \cup {Cmd("push", p, 0, 0, v, <<>>) : v \in PrimWrites}
      \cup {Cmd("pushNew", p, 0, 0, 0, <<>>), Cmd("splice", p, 0, 1, 0, <<>>)}
      \cup {Cmd("iter", p, k, 1, v, <<>>) : k \in Keys, v \in PrimWrites}
    : p \in Paths }

\* draft.k1.k2...: [ok, v, ds]; ok is FALSE when a step reads a property of
\* something that is not an object (the recipe would raise a TypeError), the
\* value reached is not an object, or a read ended in the RangeError (ds.ovf).
RECURSIVE walk(_, _, _)

walkOn(g, path) == walk(g.ds, g.v, path)

walk(ds, d, path) ==
  IF ds.ovf THEN [ok |-> FALSE, v |-> d, ds |-> ds]
  ELSE IF path = <<>> THEN [ok |-> IsObject(d), v |-> d, ds |-> ds]
  ELSE IF ~IsObject(d) \/ Head(path) \notin DOMAIN ds.heap[Under(ds.heap, d)].f
    THEN [ok |-> FALSE, v |-> d, ds |-> ds]
  ELSE walkOn(Get(ds, d, Head(path)), Tail(path))

Fields(h, v) == h[Under(h, v)].f

Reached(s) == s.ds.ovf \/ s.ok

\* The operation is one the recipe can perform on the draft d: it raises no
\* TypeError (it may end in the RangeError of createDraft).  w is the walk to
\* draft.path.
CanRunAt(w, d, c) ==
  \/ w.ds.ovf
  \/ /\ w.ok
     /\ CASE c.op \in {"set", "setNew"} -> ~IsArray(w.ds.heap, w.v)
          [] c.op = "add" ->
               /\ ~IsArray(w.ds.heap, w.v)
               /\ c.key \in DOMAIN Fields(w.ds.heap, w.v)
               /\ ~IsObject(Fields(w.ds.heap, w.v)[c.key])
          [] c.op = "setAlias" ->
               ~IsArray(w.ds.heap, w.v) /\ Reached(walk(w.ds, d, c.src))
          [] c.op = "delete" ->
               ~IsArray(w.ds.heap, w.v) /\ c.key \in DOMAIN Fields(w.ds.heap, w.v)
          [] c.op \in {"push", "pushNew"} -> IsArray(w.ds.heap, w.v)
          [] c.op = "splice" ->
               IsArray(w.ds.heap, w.v) /\ c.idx \in DOMAIN Fields(w.ds.heap, w.v)
          [] c.op = "iter" ->
               /\ IsArray(w.ds.heap, w.v)
               /\ c.idx \in DOMAIN Fields(w.ds.heap, w.v)
               /\ IsObject(Fields(w.ds.heap, w.v)[c.idx])
               /\ Writable(w.ds.heap, Fields(w.ds.heap, w.v)[c.idx])

CanRun(ds, d, c) == CanRunAt(walk(ds, d, c.path), d, c)

\* target[key] = <what the read g gave> + val
addTo(g, p, key, val) == handlerSet(g.ds, p, key, g.v + val)

\* target[key] = <the draft the walk s reached>
assignFrom(s, p, key) == handlerSet(s.ds, p, key, s.v)

\* ds with a new object of the caller, {}, at the end of the heap
withNew(ds) == [ds EXCEPT !.heap = Append(@, PlainNode("obj", <<>>))]

\* The heap and draftCache after the operation (ovf: it ended in the RangeError).
RunAt(w, d, c) ==
  CASE w.ds.ovf -> w.ds
    [] c.op = "set" -> handlerSet(w.ds, NodeOf(w.v), c.key, c.val)
    [] c.op = "add" ->
         addTo(handlerGet(w.ds, NodeOf(w.v), c.key), NodeOf(w.v), c.key, c.val)
    [] c.op = "setNew" ->
         handlerSet(withNew(w.ds), NodeOf(w.v), c.key, Ref(Len(w.ds.heap) + 1))
    [] c.op = "setAlias" -> assignFrom(walk(w.ds, d, c.src), NodeOf(w.v), c.key)
    [] c.op = "delete" -> handlerDelete(w.ds, NodeOf(w.v), c.key)
    [] c.op = "push" -> arrayPush(w.ds, NodeOf(w.v), c.val)
    [] c.op = "pushNew" ->
         arrayPush(withNew(w.ds), NodeOf(w.v), Ref(Len(w.ds.heap) + 1))
    [] c.op = "splice" -> arraySplice(w.ds, NodeOf(w.v), c.idx)
    [] c.op = "iter" ->
         Put(w.ds, arrayElement(w.ds, NodeOf(w.v), c.idx), c.key, c.val)

Run(ds, d, c) == RunAt(walk(ds, d, c.path), d, c)

Holds(f, k) == k \in DOMAIN f /\ IsObject(f[k])

\* The operation leaves every object-valued property of the draft in place.
KeepsEdgesAt(w, c) ==
  CASE c.op \in {"set", "setNew", "setAlias", "delete"} ->
         ~Holds(Fields(w.ds.heap, w.v), c.key)
    [] c.op = "iter" ->
         ~Holds(Fields(w.ds.heap, Fields(w.ds.heap, w.v)[c.idx]), c.key)
    [] c.op = "splice" -> FALSE
    [] OTHER -> TRUE

KeepsEdges(ds, d, c) == KeepsEdgesAt(walk(ds, d, c.path), c)

-----------------------------------------------------------------------------
\* The same operations as ordinary JavaScript mutation of a plain object graph
\* h with root 0 - 1 (what the snapshots are compared with).

RECURSIVE mwalk(_, _, _)
mwalk(h, v, path) ==
  IF path = <<>> THEN [ok |-> IsObject(v), v |-> v]
  ELSE IF ~IsObject(v) \/ Head(path) \notin DOMAIN h[NodeOf(v)].f
    THEN [ok |-> FALSE, v |-> v]
  ELSE mwalk(h, h[NodeOf(v)].f[Head(path)], Tail(path))

MCanRun(h, c) ==
  LET w == mwalk(h, Ref(1), c.path)
      f == h[NodeOf(w.v)].f
      arr == h[NodeOf(w.v)].kind = "arr"
  IN /\ w.ok
     /\ CASE c.op \in {"set", "setNew"} -> ~arr
          [] c.op = "add" -> ~arr /\ c.key \in DOMAIN f /\ ~IsObject(f[c.key])
          [] c.op = "setAlias" -> ~arr /\ mwalk(h, Ref(1), c.src).ok
          [] c.op = "delete" -> ~arr /\ c.key \in DOMAIN f
          [] c.op \in {"push", "pushNew"} -> arr
          [] c.op = "splice" -> arr /\ c.idx \in DOMAIN f
          [] c.op = "iter" -> arr /\ c.idx \in DOMAIN f /\ IsObject(f[c.idx])

MRun(h, c) ==
  LET n == NodeOf(mwalk(h, Ref(1), c.path).v)
      f == h[n].f
      o == Len(h) + 1
      h1 == Append(h, PlainNode("obj", <<>>))
  IN CASE c.op = "set" -> [h EXCEPT ![n].f = PutField(@, c.key, c.val)]
       [] c.op = "add" -> [h EXCEPT ![n].f = PutField(@, c.key, f[c.key] + c.val)]
       [] c.op = "setNew" -> [h1 EXCEPT ![n].f = PutField(@, c.key, Ref(o))]
       [] c.op = "setAlias" ->
            [h EXCEPT ![n].f = PutField(@, c.key, mwalk(h, Ref(1), c.src).v)]
       [] c.op = "delete" -> [h EXCEPT ![n].f = DelField(@, c.key)]
       [] c.op = "push" -> [h EXCEPT ![n].f = Append(@, c.val)]
       [] c.op = "pushNew" -> [h1 EXCEPT ![n].f = Append(@, Ref(o))]
       [] c.op = "splice" ->
            [h EXCEPT ![n].f = SubSeq(@, 1, c.idx - 1) \o SubSeq(@, c.idx + 1, Len(@))]
       [] c.op = "iter" ->
            [h EXCEPT ![NodeOf(f[c.idx])].f = PutField(@, c.key, c.val)]

-----------------------------------------------------------------------------
\* produce and batchProduce (part_000:111-148).
\* cx = [heap, draftCache, draft, clones, finalizes, result, ovf]: the heap,
\* the locals of the call and the numbers of deepClone and finalizeDraft calls
\* it made; ovf when finalizeDraft ended in the RangeError.

\* d is what createDraft(stateCopy) gave
entered(d) ==
  [heap |-> d.ds.heap, draftCache |-> d.ds.draftCache, draft |-> d.v,
   clones |-> 1, finalizes |-> 0, result |-> 0, ovf |-> FALSE]

\* createDraft(stateCopy), c being what deepClone(state) gave
draftOf(c) == createDraft(DS(c.cs.heap, <<>>), c.v)

\* const stateCopy = deepClone(state); const draft = createDraft(stateCopy)
produceEnter(h, s) == entered(draftOf(deepClone([heap |-> h, seen |-> <<>>], s)))

batchProduceEnter(h, s) == entered(draftOf(deepClone([heap |-> h, seen |-> <<>>], s)))

\* A loop that makes a new working copy and draft of the state for each recipe.
batchProduceAgain(cx, s) ==
  [batchProduceEnter(cx.heap, s) EXCEPT !.clones = cx.clones + 1]

\* for (const recipe of recipes) recipe(draft): what the loop hands the next
\* recipe is the draft made on entry.
batchProduceNext(cx, s) == cx

\* r is what finalizeDraft(draft) gave
returning(cx, r) ==
  IF r.ds.ovf
    THEN [cx EXCEPT !.finalizes = @ + 1, !.ovf = TRUE]
    ELSE [cx EXCEPT !.heap = r.ds.heap, !.draftCache = r.ds.draftCache,
                    !.finalizes = @ + 1, !.result = r.v]

\* A return that hands back the state when the recipe wrote nothing.
produceReturnSame(cx) ==
  IF log = <<>>
    THEN [cx EXCEPT !.finalizes = @ + 1, !.result = state]
    ELSE returning(cx, finalizeDraft(DS(cx.heap, cx.draftCache), cx.draft))

\* return finalizeDraft(draft)
produceReturn(cx) ==
  returning(cx, finalizeDraft(DS(cx.heap, cx.draftCache), cx.draft))

\* Errors are [name, message]; a message is the sequence of its pieces.
Err(name, msg) == [name |-> name, message |-> msg]
NoError == Err("", <<>>)
StackOverflow == Err("RangeError", <<"Maximum call stack size exceeded">>)

\* `${e}`: Error.prototype.toString
ErrorToString(e) ==
  IF e.message = <<>> THEN <<e.name>> ELSE <<e.name, ": ">> \o e.message

\* A catch clause that drops the error it caught.
produceCatchBare(e) == Err("ISEError", <<"Recipe failed">>)

\* catch (e) { throw new ISEError(`Recipe failed: ${e}`) }
produceCatch(e) == Err("ISEError", <<"Recipe failed: ">> \o ErrorToString(e))

\* catch (e) { throw new ISEError(`Batch recipe failed: ${e}`) }
batchProduceCatch(e) == Err("ISEError", <<"Batch recipe failed: ">> \o ErrorToString(e))

Cx == [heap |-> heap, draftCache |-> draftCache, draft |-> draft,
       clones |-> clones, finalizes |-> finalizes, result |-> result, ovf |-> FALSE]

SetCx(cx) ==
  /\ heap' = cx.heap
  /\ draftCache' = cx.draftCache
  /\ draft' = cx.draft
  /\ clones' = cx.clones
  /\ finalizes' = cx.finalizes
  /\ result' = cx.result

-----------------------------------------------------------------------------
\* The states handed to the engine: object graphs of the shapes the tests use.

Obj(f) == PlainNode("obj", f)
Arr(f) == PlainNode("arr", f)

Shapes == {
  \* { count: 0 }
  << Obj(2 :> 0) >>,
  \* a = { name: 0 }; a.self = a; state = { data: a }
  << Obj(1 :> Ref(2)), Obj((1 :> Ref(2)) @@ (2 :> 0)) >>,
  \* n = { count: 0 }; state = { a: n, b: n }
  << Obj((1 :> Ref(2)) @@ (2 :> Ref(2))), Obj(2 :> 0) >>,
  \* state = { items: [{ count: 0 }], count: 0 }
  << Obj((1 :> Ref(2)) @@ (2 :> 0)), Arr(<<Ref(3)>>), Obj(2 :> 0) >>,
  \* state = { self: state, count: 0 }
  << Obj((1 :> Ref(1)) @@ (2 :> 0)) >> }

\* No call made yet on the heap h; s is the state the caller holds.
CoreIdle(h, s) ==
  /\ heap = h
  /\ draftCache = <<>>
  /\ pc = "idle"
  /\ mode = "produce"
  /\ state = s
  /\ draft = 0
  /\ result = 0
  /\ error = NoError
  /\ invoked = <<>>
  /\ log = <<>>
  /\ thrown = NoError
  /\ raisedIn = 0
  /\ clones = 0
  /\ finalizes = 0
  /\ orig = h
  /\ mheap = h
  /\ edgesKept = TRUE

\* No chain started.
ChainIdle == snaps = <<>>

\* No BatchQueue made.
QueueIdle == queues = <<>> /\ ret = 0 /\ enq = <<>> /\ execd = <<>>

\* const memoCache = new WeakMap()
MemoIdle == memoCache = <<>>

\* new Cache(): no entry, no node, no token.
CacheIdle ==
  /\ cache = <<>>
  /\ lru = <<>>
  /\ objectRefs = <<>>
  /\ rnd = 0
  /\ got = Undefined
  /\ trace = <<>>

Init ==
  /\ ChainIdle
  /\ QueueIdle
  /\ MemoIdle
  /\ CacheIdle
  /\ heap \in Shapes
  /\ draftCache = <<>>
  /\ pc = "idle"
  /\ mode = "produce"
  /\ state = Ref(1)
  /\ draft = 0
  /\ result = 0
  /\ error = NoError
  /\ invoked = <<>>
  /\ log = <<>>
  /\ thrown = NoError
  /\ raisedIn = 0
  /\ clones = 0
  /\ finalizes = 0
  /\ orig = heap
  /\ mheap = heap
  /\ edgesKept = TRUE

\* produce(state, recipe) up to the call of the recipe.
CallProduce ==
  /\ UNCHANGED extVars
  /\ pc = "idle"
  /\ SetCx(produceEnter(heap, state))
  /\ pc' = "recipe"
  /\ mode' = "produce"
  /\ invoked' = <<[recipe |-> 1, draft |-> draft']>>
  /\ UNCHANGED <<state, error, log, thrown, raisedIn, orig, mheap, edgesKept>>

\* batchProduce(state, recipes) up to the loop.
CallBatchProduce ==
  /\ UNCHANGED extVars
  /\ pc = "idle"
  /\ SetCx(batchProduceEnter(heap, state))
  /\ pc' = "recipe"
  /\ mode' = "batch"
  /\ invoked' = <<>>
  /\ UNCHANGED <<state, error, log, thrown, raisedIn, orig, mheap, edgesKept>>

\* The loop of batchProduce takes the next recipe of the array.
NextRecipe ==
  /\ UNCHANGED extVars
  /\ pc = "recipe"
  /\ mode = "batch"
  /\ Len(invoked) < MaxRecipes
  /\ SetCx(batchProduceNext(Cx, state))
  /\ invoked' = Append(invoked, [recipe |-> Len(invoked) + 1, draft |-> draft'])
  /\ UNCHANGED <<pc, mode, state, error, log, thrown, raisedIn, orig, mheap, edgesKept>>

\* ds1 is the heap and draftCache the operation left.
Performed(ds1) ==
  /\ ~ds1.ovf
  /\ heap' = ds1.heap
  /\ draftCache' = ds1.draftCache

\* The running recipe performs one operation on its draft.
RecipeOp(c) ==
  /\ UNCHANGED extVars
  /\ pc = "recipe"
  /\ invoked # <<>>
  /\ Len(log) < MaxOps
  /\ MCanRun(mheap, c)
  /\ CanRun(DS(heap, draftCache), draft, c)
  /\ Performed(Run(DS(heap, draftCache), draft, c))
  /\ edgesKept' = (edgesKept /\ KeepsEdges(DS(heap, draftCache), draft, c))
  /\ mheap' = MRun(mheap, c)
  /\ log' = Append(log, c)
  /\ UNCHANGED <<pc, mode, state, draft, result, error, invoked, thrown, raisedIn,
                 clones, finalizes, orig>>

\* A catch clause inside the loop of batchProduce: the loop goes on.
RaiseAndGoOn(e) ==
  /\ thrown' = e
  /\ raisedIn' = Len(invoked)
  /\ error' = IF mode = "produce" THEN produceCatch(e) ELSE batchProduceCatch(e)
  /\ pc' = IF mode = "produce" THEN "failed" ELSE "recipe"
  /\ UNCHANGED <<heap, draftCache, mode, state, draft, result, invoked, log,
                 clones, finalizes, orig, mheap, edgesKept>>

\* The running recipe raises e; the catch clause of the call rethrows.
Raise(e) ==
  /\ thrown' = e
  /\ raisedIn' = Len(invoked)
  /\ error' = IF mode = "produce" THEN produceCatch(e) ELSE batchProduceCatch(e)
  /\ pc' = "failed"
  /\ UNCHANGED <<heap, draftCache, mode, state, draft, result, invoked, log,
                 clones, finalizes, orig, mheap, edgesKept>>

\* throw new Error(msg) in the running recipe.
RecipeThrow(msg) ==
  /\ UNCHANGED extVars
  /\ pc = "recipe"
  /\ invoked # <<>>
  /\ Raise(Err("Error", <<msg>>))

\* An operation of the running recipe ends in the RangeError of createDraft.
RecipeOverflow(c) ==
  /\ UNCHANGED extVars
  /\ pc = "recipe"
  /\ invoked # <<>>
  /\ Len(log) < MaxOps
  /\ MCanRun(mheap, c)
  /\ CanRun(DS(heap, draftCache), draft, c)
  /\ Run(DS(heap, draftCache), draft, c).ovf
  /\ Raise(StackOverflow)

\* cx is the call after  return finalizeDraft(draft).
Finish(cx) ==
  /\ SetCx(cx)
  /\ pc' = IF cx.ovf THEN "failed" ELSE "returned"
  /\ error' = IF cx.ovf THEN StackOverflow ELSE error
  /\ UNCHANGED <<mode, state, invoked, log, thrown, raisedIn, orig, mheap, edgesKept>>

\* The recipe (the last recipe of the array) returned: finalize and return.
\* When finalizeDraft ends in the RangeError of createDraft, which is outside
\* the try block, the call fails with that error.
Return ==
  /\ UNCHANGED extVars
  /\ pc = "recipe"
  /\ Finish(produceReturn(Cx))

Next ==
  \/ CallProduce
  \/ CallBatchProduce
  \/ NextRecipe
  \/ \E c \in Cmds : RecipeOp(c)
  \/ \E msg \in ErrMsgs : RecipeThrow(msg)
  \/ \E c \in Cmds : RecipeOverflow(c)
  \/ Return

Spec == Init /\ [][Next]_vars

-----------------------------------------------------------------------------
\* Object graphs: reachability and deep equality.

\* The nodes the properties of the nodes N refer to.
Succ(h, N) ==
  UNION { { NodeOf(h[n].f[k]) : k \in { x \in DOMAIN h[n].f : IsObject(h[n].f[x]) } }
          : n \in N }

RECURSIVE ReachFrom(_, _, _)
ReachFrom(h, done, front) ==
  IF front = {} THEN done
  ELSE ReachFrom(h, done \cup front, Succ(h, front) \ (done \cup front))

\* The nodes reachable from the value v by property access.
Reach(h, v) == IF IsObject(v) THEN ReachFrom(h, {}, {NodeOf(v)}) ELSE {}

\* The pairs of values one step of equal property access beyond the pairs P.
PairSucc(h1, h2, P) ==
  UNION { { <<h1[NodeOf(p[1])].f[k], h2[NodeOf(p[2])].f[k]>>
            : k \in DOMAIN h1[NodeOf(p[1])].f \cap DOMAIN h2[NodeOf(p[2])].f }
          : p \in { q \in P : IsObject(q[1]) /\ IsObject(q[2]) } }

RECURSIVE PairsFrom(_, _, _, _)
PairsFrom(h1, h2, done, front) ==
  IF front = {} THEN done
  ELSE PairsFrom(h1, h2, done \cup front,
                 PairSucc(h1, h2, front) \ (done \cup front))

\* Two values met on equal paths agree: the same primitive, or two objects
\* (two arrays) with the same keys.
Agree(h1, h2, p) ==
  IF IsObject(p[1]) /\ IsObject(p[2])
    THEN /\ h1[NodeOf(p[1])].kind = h2[NodeOf(p[2])].kind
         /\ DOMAIN h1[NodeOf(p[1])].f = DOMAIN h2[NodeOf(p[2])].f
    ELSE p[1] = p[2]

\* v1 in the heap h1 is deep-equal to v2 in the heap h2.
DeepEqual(h1, v1, h2, v2) ==
  \A p \in PairsFrom(h1, h2, {}, {<<v1, v2>>}) : Agree(h1, h2, p)

\* Every node the heap held when the call was made is as it was.
InputUnchanged ==
  /\ Len(heap) >= Len(orig)
  /\ \A n \in 1..Len(orig) : heap[n] = orig[n]

\* s contains the sequence t
Contains(s, t) ==
  \E i \in 1..(Len(s) + 1) : i + Len(t) - 1 <= Len(s) /\ SubSeq(s, i, i + Len(t) - 1) = t

Ops == { log[i].op : i \in DOMAIN log }

-----------------------------------------------------------------------------
\* C1 (non-mutation): after produce(s, r) has returned or failed, every
\* property of every node reachable from s has the value it had before the
\* call, for plain, shared and cyclic state graphs and every recipe.
C1_NonMutation ==
  (mode = "produce" /\ pc \in {"returned", "failed"}) => InputUnchanged

\* produce returned after a recipe wrote to an element handed to a forEach
\* callback, and the snapshot differs from the input.
C1_Witness ==
  /\ mode = "produce" /\ pc = "returned"
  /\ "iter" \in Ops
  /\ ~DeepEqual(heap, result, orig, state)

\* C3 (failure atomicity): when a recipe has mutated its draft and then
\* raises, produce fails, returns no snapshot, and the state is unchanged.
C3_FailureAtomicity ==
  (mode = "produce" /\ thrown # NoError /\ log # <<>>) =>
    /\ pc = "failed"
    /\ result = 0
    /\ InputUnchanged

\* A recipe wrote to an element of a nested array and then threw.
C3_Witness ==
  /\ mode = "produce" /\ pc = "failed"
  /\ thrown = Err("Error", <<"boom">>)
  /\ "iter" \in Ops

\* C4 (no failure swallowed): every error a recipe raises inside produce or
\* batchProduce reaches the caller as an ISEError whose message contains the
\* message of the error, and the call returns no snapshot.
C4_NoFailureSwallowed ==
  thrown # NoError =>
    /\ pc = "failed"
    /\ error.name = "ISEError"
    /\ Contains(error.message, thrown.message)
    /\ result = 0

\* A recipe of produce threw after a write.
C4_Witness ==
  /\ mode = "produce" /\ pc = "failed"
  /\ thrown = Err("Error", <<"boom">>)
  /\ error = Err("ISEError", <<"Recipe failed: ", "Error", ": ", "boom">>)
  /\ "set" \in Ops

\* The snapshot produce returned is deep-equal to the independent copy of the
\* state after the same operations by ordinary mutation.
SameAsOrdinary == DeepEqual(heap, result, mheap, Ref(1))

\* The recipe itself threw no error.
NoThrow == thrown # Err("Error", <<"boom">>)

\* C2 (recipe application): for a recipe of property assignments, property
\* deletions and array push/splice on nodes reached through the draft,
\* produce returns a snapshot deep-equal to the result of the same operations
\* by ordinary mutation of an independent deep copy of the state.
C2_RecipeApplication ==
  (mode = "produce" /\ pc \in {"returned", "failed"} /\ NoThrow /\ "iter" \notin Ops) =>
    (pc = "returned" /\ SameAsOrdinary)

\* Access paths of up to three properties.
ProbePaths ==
  {<<>>} \cup UNION { [1..n -> Keys] : n \in 1..3 }

\* In the input state the paths p and q lead to one node.
SameInInput(p, q) ==
  /\ mwalk(orig, state, p).ok
  /\ mwalk(orig, state, q).ok
  /\ mwalk(orig, state, p).v = mwalk(orig, state, q).v

\* In the returned snapshot the paths p and q lead to one node.
SameInResult(p, q) ==
  /\ mwalk(heap, result, p).ok
  /\ mwalk(heap, result, q).ok
  /\ mwalk(heap, result, p).v = mwalk(heap, result, q).v

\* The last operation of the recipe was draft.p[key] = <a primitive>.
LastWroteAt(p) ==
  log # <<>> /\ log[Len(log)].op = "set" /\ log[Len(log)].path = p

\* The snapshot shows the write c at the end of the path q.
ShowsAt(q, c) ==
  /\ mwalk(heap, result, q).ok
  /\ c.key \in DOMAIN heap[NodeOf(mwalk(heap, result, q).v)].f
  /\ heap[NodeOf(mwalk(heap, result, q).v)].f[c.key] = c.val

\* C5 (cycle and shared-node preservation): when two access paths of the
\* input state lead to the same node (a node that refers to itself included)
\* and the recipe leaves the object-valued properties in place, the same two
\* paths lead to one identical node of the snapshot produce returns, and a
\* primitive written through one of the paths is visible through the other.
C5_SharedNodePreservation ==
  (mode = "produce" /\ pc = "returned" /\ edgesKept) =>
    \A p \in ProbePaths, q \in ProbePaths :
      SameInInput(p, q) =>
        /\ SameInResult(p, q)
        /\ LastWroteAt(p) => ShowsAt(q, log[Len(log)])

\* data.self === data in the input; the recipe wrote draft.data.name, and the
\* snapshot shows the write at result.data.self.name.
C5_Witness ==
  /\ mode = "produce" /\ pc = "returned" /\ edgesKept
  /\ SameInInput(<<1>>, <<1, 1>>)
  /\ ~SameInInput(<<>>, <<1>>)
  /\ LastWroteAt(<<1>>)
  /\ log[Len(log)] = Cmd("set", <<1>>, 2, 0, 1, <<>>)
  /\ ShowsAt(<<1, 1, 1>>, Cmd("set", <<1>>, 2, 0, 1, <<>>))
  /\ SameInResult(<<1>>, <<1, 1>>)

\* C6 (deep freeze): when produce or batchProduce returns, every object and
\* array reachable from the snapshot is a frozen plain object or array, nodes
\* on cycles and nodes the recipe added included.
C6_DeepFreeze ==
  pc = "returned" =>
    /\ IsObject(result)
    /\ \A n \in Reach(heap, result) : heap[n].frozen /\ heap[n].kind # "proxy"

\* The snapshot has a cycle and an object the recipe added.
C6_Witness ==
  /\ pc = "returned"
  /\ "setNew" \in Ops
  /\ \E n \in Reach(heap, result) : n \in Succ(heap, {n})
  /\ Cardinality(Reach(heap, result)) >= 3

\* C7 (reference distinctness): the snapshot produce returns is another
\* reference than the input state, and no object or array of the snapshot,
\* mutated by the recipe or not, is a node of the input.
C7_ReferenceDistinctness ==
  (mode = "produce" /\ pc = "returned") =>
    /\ result # state
    /\ Reach(heap, result) \cap Reach(orig, state) = {}

\* The recipe wrote to a nested object and the snapshot differs from the input.
C7_Witness ==
  /\ mode = "produce" /\ pc = "returned"
  /\ \E i \in DOMAIN log : log[i].op = "add" /\ log[i].path = <<1>>
  /\ ~DeepEqual(heap, result, orig, state)
  /\ Cardinality(Reach(orig, state)) >= 2

\* The recipe of one produce call performs the operations cs on its draft d.
RECURSIVE RunAll(_, _, _)
RunAll(ds, d, cs) ==
  IF cs = <<>> \/ ds.ovf THEN ds
  ELSE RunAll(Run(ds, d, Head(cs)), d, Tail(cs))

\* cx after the recipe performed cs
ranAll(cx, cs) == RunAll(DS(cx.heap, cx.draftCache), cx.draft, cs)

\* cx with the heap and draftCache of ds
after(cx, ds) == [cx EXCEPT !.heap = ds.heap, !.draftCache = ds.draftCache]

recipeDone(cx, cs) == after(cx, ranAll(cx, cs))

\* produce(state, draft => { cs }) on the heap h: the call when it returns.
OneRecipe(h, s, cs) == produceReturn(recipeDone(produceEnter(h, s), cs))

\* The snapshot is deep-equal to the one the call x returned.
SameAs(x) == ~x.ovf /\ DeepEqual(heap, result, x.heap, x.result)

\* C8 (batch ordering): batchProduce invokes the recipes in array order, each
\* with one and the same draft, so that a recipe works on what the recipes
\* before it left, and the snapshot equals that of the recipes applied one
\* after another: that of one recipe performing all their operations in
\* order, and, for writes of primitives, that of ordinary mutation.
C8_BatchOrdering ==
  mode = "batch" =>
    /\ \A i \in DOMAIN invoked : invoked[i].recipe = i /\ invoked[i].draft = draft
    /\ pc = "returned" =>
         /\ SameAs(OneRecipe(orig, state, log))
         /\ Ops \subseteq {"set", "add"} => SameAsOrdinary

\* batchProduce({count: 0}, [d => d.count += 1, d => d.count += 2]) returned
\* {count: 3}.
C8_Witness ==
  /\ mode = "batch" /\ pc = "returned"
  /\ orig = << Obj(2 :> 0) >>
  /\ log = << Cmd("add", <<>>, 2, 0, 1, <<>>), Cmd("add", <<>>, 2, 0, 2, <<>>) >>
  /\ Len(invoked) = 2
  /\ heap[NodeOf(result)].f = (2 :> 3)

\* C9 as stated: every batchProduce call that has ended made exactly one deep
\* clone of the state and exactly one finalization.
C9_OneCloneOneFinalize ==
  (mode = "batch" /\ pc \in {"returned", "failed"}) => (clones = 1 /\ finalizes = 1)

\* C9 (one clone, one finalization): a batchProduce call makes exactly one
\* deep clone of the state whatever the number of recipes, none included, and
\* exactly one finalization when no recipe raises; when a recipe raises, the
\* call fails without a finalization.
C9_OneCloneOneFinalizeUnlessRaised ==
  mode = "batch" =>
    /\ clones = 1
    /\ finalizes = IF pc \in {"returned", "failed"} /\ thrown = NoError THEN 1 ELSE 0

\* batchProduce returned after two recipes that wrote to the draft.
C9_Witness ==
  /\ mode = "batch" /\ pc = "returned"
  /\ Len(invoked) = 2 /\ Len(log) = 2
  /\ clones = 1 /\ finalizes = 1

\* C10 (batch failure): when recipe k of batchProduce raises, no recipe after
\* k is invoked, batchProduce fails with an ISEError and returns no snapshot,
\* and the input state is unchanged although the recipes before k mutated the
\* draft.
C10_BatchFailure ==
  (mode = "batch" /\ thrown # NoError) =>
    /\ pc = "failed"
    /\ Len(invoked) = raisedIn
    /\ error.name = "ISEError"
    /\ result = 0
    /\ InputUnchanged

\* The second recipe threw after the first wrote to an element of an array.
C10_Witness ==
  /\ mode = "batch" /\ pc = "failed"
  /\ raisedIn = 2
  /\ thrown = Err("Error", <<"boom">>)
  /\ error = Err("ISEError", <<"Batch recipe failed: ", "Error", ": ", "boom">>)
  /\ log # <<>>
  /\ "iter" \in Ops

-----------------------------------------------------------------------------
\* Whole calls.  A recipe function is its source text and the operations it
\* performs on its draft, which are those of its text with the values it
\* captured; Throw is the statement throw new Error("boom").

Recipe(text, ops) == [text |-> text, ops |-> ops]

Throw == Cmd("throw", <<>>, 0, 0, 0, <<>>)

Recipes == {
  \* draft => {}
  Recipe("nop", <<>>),
  \* draft => { draft.count += n }, with n = 1 and with n = 2
  Recipe("inc", <<Cmd("add", <<>>, 2, 0, 1, <<>>)>>),
  Recipe("inc", <<Cmd("add", <<>>, 2, 0, 2, <<>>)>>),
  \* draft => { draft.data.name = 1 }
  Recipe("rename", <<Cmd("set", <<1>>, 2, 0, 1, <<>>)>>),
  \* draft => { draft.items.forEach(item => { item.count = 1 }) }
  Recipe("each", <<Cmd("iter", <<1>>, 2, 1, 1, <<>>)>>),
  \* draft => { draft.items.push(1) }
  Recipe("push", <<Cmd("push", <<1>>, 0, 0, 1, <<>>)>>),
  \* draft => { draft.count = 1 }
  Recipe("reset", <<Cmd("set", <<>>, 2, 0, 1, <<>>)>>),
  \* draft => { delete draft.count }
  Recipe("drop", <<Cmd("delete", <<>>, 2, 0, 0, <<>>)>>),
  \* draft => { draft.count += 1; throw new Error("boom") }
  Recipe("fail", <<Cmd("add", <<>>, 2, 0, 1, <<>>), Throw>>) }

\* What a recipe raises when it writes through something that is not an
\* object, or to a frozen object (the sources are modules: strict mode).
TypeError == Err("TypeError", <<"Cannot set properties">>)

\* The recipe did something outside the operations above.
NotModelled == Err("", <<"not modelled">>)

\* The operation raises a TypeError: a step of its path, or its target, is not
\* an object, or forEach hands it a frozen element.
RaisesTypeError(w, c) ==
  \/ ~w.ok
  \/ /\ c.op = "iter"
     /\ IsArray(w.ds.heap, w.v)
     /\ c.idx \in DOMAIN Fields(w.ds.heap, w.v)
     /\ IsObject(Fields(w.ds.heap, w.v)[c.idx])
     /\ ~Writable(w.ds.heap, Fields(w.ds.heap, w.v)[c.idx])

\* recipe(draft): [ds, thrown], ds being the heap and draftCache it left and
\* thrown what it raised.
RECURSIVE recipeRun(_, _, _)

ran(ds1, d, rest) ==
  IF ds1.ovf THEN [ds |-> ds1, thrown |-> StackOverflow]
  ELSE recipeRun(ds1, d, rest)

recipeStep(w, d, cs) ==
  IF w.ds.ovf THEN [ds |-> w.ds, thrown |-> StackOverflow]
  ELSE IF RaisesTypeError(w, Head(cs)) THEN [ds |-> w.ds, thrown |-> TypeError]
  ELSE IF ~CanRunAt(w, d, Head(cs)) THEN [ds |-> w.ds, thrown |-> NotModelled]
  ELSE ran(RunAt(w, d, Head(cs)), d, Tail(cs))

recipeRun(ds, d, cs) ==
  IF cs = <<>> THEN [ds |-> ds, thrown |-> NoError]
  ELSE IF Head(cs) = Throw THEN [ds |-> ds, thrown |-> Err("Error", <<"boom">>)]
  ELSE recipeStep(walk(ds, d, Head(cs).path), d, cs)

\* A call that ended: the heap it left, what it returned or the error it
\* failed with, what its recipe raised, the recipes it invoked and the numbers
\* of deepClone and finalizeDraft calls it made.
failedCall(cx, e, t, inv) ==
  [heap |-> cx.heap, result |-> 0, error |-> e, thrown |-> t, invoked |-> inv,
   clones |-> cx.clones, finalizes |-> cx.finalizes]

\* cx is what the return statement left: the RangeError of finalizeDraft is
\* raised outside the try block.
returnedCall(cx, inv) ==
  IF cx.ovf THEN failedCall(cx, StackOverflow, NoError, inv)
  ELSE [heap |-> cx.heap, result |-> cx.result, error |-> NoError,
        thrown |-> NoError, invoked |-> inv,
        clones |-> cx.clones, finalizes |-> cx.finalizes]

\* try { recipe(draft) } catch ...; return finalizeDraft(draft)
produceTried(cx, rr, inv) ==
  IF rr.thrown # NoError
    THEN failedCall(after(cx, rr.ds), produceCatch(rr.thrown), rr.thrown, inv)
    ELSE returnedCall(produceReturn(after(cx, rr.ds)), inv)

produceWith(cx, r) ==
  produceTried(cx, recipeRun(DS(cx.heap, cx.draftCache), cx.draft, r.ops),
               <<[recipe |-> 1, draft |-> cx.draft]>>)

\* produce(state, recipe) on the heap h
produce(h, s, r) == produceWith(produceEnter(h, s), r)

\* for (const recipe of recipes) recipe(draft), from recipes[i] on, and the
\* return statement; inv are the recipes invoked so far.
RECURSIVE batchLoop(_, _, _, _, _)

batchRan(cx, rr, s, rs, i, inv) ==
  IF rr.thrown # NoError
    THEN failedCall(after(cx, rr.ds), batchProduceCatch(rr.thrown), rr.thrown, inv)
    ELSE batchLoop(after(cx, rr.ds), s, rs, i + 1, inv)

batchTried(cx, s, rs, i, inv) ==
  batchRan(cx, recipeRun(DS(cx.heap, cx.draftCache), cx.draft, rs[i].ops),
           s, rs, i, Append(inv, [recipe |-> i, draft |-> cx.draft]))

batchLoop(cx, s, rs, i, inv) ==
  IF i > Len(rs) THEN returnedCall(produceReturn(cx), inv)
  ELSE batchTried(batchProduceNext(cx, s), s, rs, i, inv)

\* batchProduce(state, recipes) on the heap h
batchProduce(h, s, rs) == batchLoop(batchProduceEnter(h, s), s, rs, 1, <<>>)

\* The call is one the model covers.
Modelled(call) == call.thrown # NotModelled

Returned(call) == call.error = NoError

\* The variables of the engine after the call.
SetCall(call) ==
  /\ heap' = call.heap
  /\ draftCache' = <<>>
  /\ draft' = IF call.invoked = <<>> THEN 0 ELSE call.invoked[1].draft
  /\ result' = call.result
  /\ error' = call.error
  /\ thrown' = call.thrown
  /\ invoked' = call.invoked
  /\ clones' = call.clones
  /\ finalizes' = call.finalizes
  /\ pc' = IF Returned(call) THEN "returned" ELSE "failed"

\* Ordinary mutation by the operations cs, as far as they can be performed.
RECURSIVE MRunAll(_, _)
MRunAll(h, cs) ==
  IF cs = <<>> \/ Head(cs) = Throw \/ ~MCanRun(h, Head(cs)) THEN h
  ELSE MRunAll(MRun(h, Head(cs)), Tail(cs))

\* Ordinary mutation can perform all of cs.
RECURSIVE MRuns(_, _)
MRuns(h, cs) ==
  \/ cs = <<>>
  \/ Head(cs) = Throw
  \/ MCanRun(h, Head(cs)) /\ MRuns(MRun(h, Head(cs)), Tail(cs))

-----------------------------------------------------------------------------
\* Chained updates and primitive states (part_000:111-127):
\* s1 = produce(s0, r1), s2 = produce(s1, r2), ... where s0 is an object
\* graph, a primitive, null or undefined.

PrimStates == {0, Null, Undefined}

ChainInit ==
  /\ ChainIdle
  /\ QueueIdle
  /\ MemoIdle
  /\ CacheIdle
  /\ \E h \in Shapes, s \in {Ref(1)} \cup PrimStates : CoreIdle(h, s)

\* s(i+1) = produce(s(i), r); mheap is a mutable copy of s0 under ordinary
\* mutation by the recipes that returned.
Chained(s, r, call) ==
  /\ Modelled(call)
  /\ snaps' = Append(snaps, [state |-> s, recipe |-> r])
  /\ state' = s
  /\ orig' = heap
  /\ SetCall(call)
  /\ mode' = "produce"
  /\ log' = IF Returned(call) THEN log \o r.ops ELSE log
  /\ mheap' = IF Returned(call) /\ IsObject(s) THEN MRunAll(mheap, r.ops) ELSE mheap
  /\ raisedIn' = IF call.thrown # NoError THEN 1 ELSE 0
  /\ UNCHANGED <<edgesKept, queueVars, memoVars, cacheVars>>

ChainWith(s, r) == Chained(s, r, produce(heap, s, r))

ChainProduce(r) ==
  /\ pc \in {"idle", "returned"}
  /\ Len(snaps) < MaxChain
  /\ ChainWith(IF pc = "idle" THEN state ELSE result, r)

SpecChainNext == \E r \in Recipes : ChainProduce(r)

SpecChain == ChainInit /\ [][SpecChainNext]_vars

\* C12 (chained updates): a frozen snapshot can be the state of a later
\* produce call: the writes of each recipe succeed on its draft (the call
\* fails only when the recipe throws or writes through something that is not
\* an object of the state), each snapshot is the one ordinary mutation by the
\* recipes so far gives, it is frozen, and every node the heap held before
\* the call, every earlier snapshot included, is as it was.
C12_ChainedUpdates ==
  (snaps # <<>> /\ IsObject(state)) =>
    /\ InputUnchanged
    /\ pc = "failed" =>
         \/ thrown = Err("Error", <<"boom">>)
         \/ thrown = TypeError /\ ~MRuns(mheap, snaps[Len(snaps)].recipe.ops)
    /\ pc = "returned" =>
         /\ DeepEqual(heap, result, mheap, Ref(1))
         /\ \A n \in Reach(heap, result) : heap[n].frozen

\* s2 = produce(produce({items: [{count: 0}], count: 0}, each), inc) returned:
\* s1.items[0].count is 1 and s1.count is 0, s2.count is 1.
C12_Witness ==
  /\ Len(snaps) = 2 /\ pc = "returned"
  /\ snaps[1].recipe.text = "each" /\ snaps[2].recipe.text = "inc"
  /\ heap[NodeOf(state)].frozen
  /\ heap[NodeOf(state)].f[2] = 0
  /\ heap[NodeOf(heap[NodeOf(heap[NodeOf(state)].f[1])].f[1])].f[2] = 1
  /\ heap[NodeOf(result)].f[2] \in {1, 2}

\* C13 (primitive states): for a state that is a primitive, null or undefined
\* produce invokes the recipe exactly once, with that value as its draft, and
\* when the recipe returns gives back the value itself: it allocates no copy
\* and no Proxy.
C13_PrimitiveStates ==
  (snaps # <<>> /\ ~IsObject(state)) =>
    /\ invoked = <<[recipe |-> 1, draft |-> state]>>
    /\ heap = orig
    /\ thrown = NoError => (pc = "returned" /\ result = state)

\* produce(null, draft => {}) returned null, and so did the call chained to it.
C13_Witness ==
  /\ Len(snaps) = 2 /\ pc = "returned"
  /\ snaps[1].state = Null /\ state = Null /\ result = Null
  /\ snaps[2].recipe = Recipe("nop", <<>>)

-----------------------------------------------------------------------------
\* BatchQueue (part_000:150-171).

\* A push that puts the recipe in front of the queue.
queueUnshift(q, r) == <<r>> \o q

\* this.queue.push(recipe)
queuePush(q, r) == Append(q, r)

\* const queue = createBatchQueue(state)
QueueInit ==
  /\ ChainIdle
  /\ MemoIdle
  /\ CacheIdle
  /\ \E h \in Shapes : CoreIdle(h, Ref(1))
  /\ queues = <<[state |-> Ref(1), queue |-> <<>>]>>
  /\ ret = 0
  /\ enq = <<>>
  /\ execd = <<>>

\* this.enqueue(recipe) on queue n
enqueue(n, r) ==
  /\ Len(queues[n].queue) < MaxRecipes
  /\ queues' = [queues EXCEPT ![n].queue = queuePush(@, r)]
  /\ ret' = n
  /\ enq' = Append(enq, r)
  /\ UNCHANGED <<coreVars, chainVars, memoVars, cacheVars, execd>>

\* queue.enqueue(recipe)
Enqueue(r) == enqueue(1, r)

\* The call chained to the latest one: queue.enqueue(...).enqueue(recipe)
EnqueueChained(r) == ret # 0 /\ enqueue(ret, r)

\* The operations of the recipes rs, one after another.
RECURSIVE Flat(_)
Flat(rs) == IF rs = <<>> THEN <<>> ELSE Head(rs).ops \o Flat(Tail(rs))

\* An execute that empties the queue.
queueDrained(q) == <<>>

\* execute() reads this.queue and leaves it as it is.
queueKept(q) == q

executed(call) ==
  /\ Modelled(call)
  /\ SetCall(call)
  /\ mode' = "batch"
  /\ orig' = heap
  /\ execd' = Append(execd, enq)
  /\ log' = IF Returned(call) THEN Flat(queues[1].queue) ELSE <<>>
  /\ raisedIn' = IF call.thrown # NoError THEN Len(call.invoked) ELSE 0
  /\ queues' = [queues EXCEPT ![1].queue = queueKept(@)]
  /\ UNCHANGED <<state, mheap, edgesKept, chainVars, memoVars, cacheVars, ret, enq>>

\* queue.execute(): return batchProduce(this.state, this.queue)
Execute ==
  /\ Len(execd) < MaxExec
  /\ executed(batchProduce(heap, queues[1].state, queues[1].queue))

SpecQueueNext ==
  \/ \E r \in Recipes : Enqueue(r)
  \/ \E r \in Recipes : EnqueueChained(r)
  \/ Execute

SpecQueue == QueueInit /\ [][SpecQueueNext]_vars

\* The recipes the latest execute call found enqueued.
Enqueued == execd[Len(execd)]

\* C11 (BatchQueue): enqueue returns the queue it was called on, and execute()
\* applies every recipe enqueued so far, each exactly once and in the order of
\* the enqueue calls, to one draft of the construction state: it returns what
\* batchProduce(state, recipes) returns, which is the snapshot of one recipe
\* performing all their operations in that order, and the construction state
\* is unchanged.
C11_BatchQueue ==
  queues # <<>> =>
    /\ ret \in {0, 1}
    /\ Len(queues) = 1 /\ queues[1].state = state
    /\ execd # <<>> =>
         /\ InputUnchanged
         /\ thrown = NoError =>
              invoked = [i \in 1..Len(Enqueued) |-> [recipe |-> i, draft |-> draft]]
         /\ pc = "returned" =>
              /\ SameAs(OneRecipe(orig, state, Flat(Enqueued)))
              /\ DeepEqual(heap, result, batchProduce(orig, state, Enqueued).heap,
                           batchProduce(orig, state, Enqueued).result)
         /\ pc = "failed" => error = batchProduce(orig, state, Enqueued).error

\* queue = createBatchQueue({count: 0}); queue.enqueue(reset); queue.execute()
\* returned {count: 1}; after queue.enqueue(inc), queue.execute() returned
\* {count: 2} (n = 1) or {count: 3}.
C11_Witness ==
  /\ Len(execd) = 2 /\ pc = "returned" /\ ret = 1
  /\ Len(execd[1]) = 1 /\ Len(Enqueued) = 2
  /\ Enqueued[1].text = "reset" /\ Enqueued[2].text = "inc"
  /\ heap[NodeOf(state)].f = (2 :> 0)
  /\ heap[NodeOf(result)].f \in {(2 :> 2), (2 :> 3)}

-----------------------------------------------------------------------------
\* produceMemoized of core (part_000:173-204).

\* return stateCache.get(recipeKey): a call that invokes no recipe
hitCall(h, v) ==
  [heap |-> h, result |-> v, error |-> NoError, thrown |-> NoError,
   invoked |-> <<>>, clones |-> 0, finalizes |-> 0]

\* if (!memoCache.has(state)) memoCache.set(state, new Map())
stateCacheOf(mc, s) ==
  IF NodeOf(s) \in DOMAIN mc THEN mc ELSE (NodeOf(s) :> <<>>) @@ mc

\* recipe.toString()
recipeKey(r) == r.text

\* const result = produce(state, recipe); stateCache.set(recipeKey, result)
memoStore(mc, s, r, call) ==
  [call |-> call,
   memoCache |-> IF Returned(call)
                   THEN [mc EXCEPT ![NodeOf(s)] = (recipeKey(r) :> call.result) @@ @]
                   ELSE mc]

memoLookup(mc, h, s, r) ==
  IF recipeKey(r) \in DOMAIN mc[NodeOf(s)]
    THEN [call |-> hitCall(h, mc[NodeOf(s)][recipeKey(r)]), memoCache |-> mc]
    ELSE memoStore(mc, s, r, produce(h, s, r))

\* produceMemoized(state, recipe) on the heap h: [call, memoCache]
coreProduceMemoized(mc, h, s, r) ==
  IF ~IsObject(s) THEN [call |-> produce(h, s, r), memoCache |-> mc]
  ELSE memoLookup(stateCacheOf(mc, s), h, s, r)

MemoInit ==
  /\ ChainIdle
  /\ QueueIdle
  /\ MemoIdle
  /\ CacheIdle
  /\ \E h \in Shapes, s \in {Ref(1)} \cup PrimStates : CoreIdle(h, s)

memoized(r, m) ==
  /\ Modelled(m.call)
  /\ SetCall(m.call)
  /\ memoCache' = m.memoCache
  /\ snaps' = Append(snaps, [state |-> state, recipe |-> r])
  /\ mode' = "memo"
  /\ orig' = heap
  /\ log' = r.ops
  /\ raisedIn' = IF m.call.thrown # NoError THEN 1 ELSE 0
  /\ UNCHANGED <<state, mheap, edgesKept, queueVars, cacheVars>>

\* produceMemoized(state, recipe), with the state reference of the calls before
CallProduceMemoized(r) ==
  /\ Len(snaps) < MaxCalls
  /\ memoized(r, coreProduceMemoized(memoCache, heap, state, r))

SpecMemoNext == \E r \in Recipes : CallProduceMemoized(r)

SpecMemo == MemoInit /\ [][SpecMemoNext]_vars

\* What produce gives for the arguments of the latest call.
Plain == produce(orig, state, snaps[Len(snaps)].recipe)

\* C16 (memoization is transparent): each produceMemoized(state, recipe) call
\* of core returns a snapshot deep-equal to the one produce(state, recipe)
\* returns for the arguments of that call, also when distinct closures share
\* their source text and capture different values.
C16_MemoTransparent ==
  (mode = "memo" /\ pc = "returned") =>
    /\ Returned(Plain)
    /\ DeepEqual(heap, result, Plain.heap, Plain.result)

-----------------------------------------------------------------------------
\* class Cache (memo.ts:4-182).  C = [cache, lru, objectRefs, rnd]: the Map,
\* the doubly linked list as the sequence of the keys of its nodes from head
\* to tail, the WeakMap of identity tokens and the number of tokens made.
\* During a key derivation C also holds depth, the number of generateKey
\* calls for arrays that have not returned, and ovf.  generateKey registers an
\* object before it derives the object's entries and so meets it at most
\* once; it has no such guard for arrays, and a derivation that never leaves
\* a cycle of arrays nests without end, until JavaScript ends it with
\* "RangeError: Maximum call stack size exceeded".  A derivation that ends
\* nests fewer array calls than StackLimit, the depth at which the stack is
\* exhausted.

\* Math.random().toString(36).substring(2, 9), the n-th time
Token(n) == "r" \o ToString(n)

\* A property name as Object.entries gives it.
KeyName(k) == ToString(k)

\* [k, C]: the string, and the cache with the tokens the derivation registered
RECURSIVE generateKey(_, _, _)

\* key.map(item => this.generateKey(item)).join(','), from item i on
RECURSIVE joinItems(_, _, _, _, _)

joinItem(g, h, items, i, acc) ==
  joinItems(g.C, h, items, i + 1, acc \o (IF i = 1 THEN "" ELSE ",") \o g.k)

joinItems(C, h, items, i, acc) ==
  IF i > Len(items) \/ C.ovf THEN [k |-> acc, C |-> C]
  ELSE joinItem(generateKey(C, h, items[i]), h, items, i, acc)

\* Object.entries(objKey).sort(...).map(([k, v]) => `${k}:${generateKey(v)}`)
\* .join('|'), from entry i on
RECURSIVE joinEntries(_, _, _, _, _, _)

joinEntry(g, h, f, keys, i, acc) ==
  joinEntries(g.C, h, f, keys, i + 1,
              acc \o (IF i = 1 THEN "" ELSE "|") \o KeyName(keys[i]) \o ":" \o g.k)

joinEntries(C, h, f, keys, i, acc) ==
  IF i > Len(keys) \/ C.ovf THEN [k |-> acc, C |-> C]
  ELSE joinEntry(generateKey(C, h, f[keys[i]]), h, f, keys, i, acc)

prefixed(pre, g) == [g EXCEPT !.k = pre \o @]

\* const objId = `obj:${Math.random()...}`; this.objectRefs.set(objKey, objId)
registered(C, n, objId) ==
  [C EXCEPT !.objectRefs = (n :> objId) @@ @, !.rnd = @ + 1]

objectKey(C, h, key, objId) ==
  prefixed(objId \o ":",
           joinEntries(registered(C, NodeOf(key), objId), h, Fields(h, key),
                       ObjectKeys(h, key), 1, ""))

\* `array:${key.map(item => this.generateKey(item)).join(',')}`; g is what the
\* map and join gave, and the call for the array returns
arrayKey(g) == [k |-> "array:" \o g.k, C |-> [g.C EXCEPT !.depth = @ - 1]]

generateKey(C, h, key) ==
  IF C.ovf THEN [k |-> "", C |-> C]
  ELSE IF key = Null THEN [k |-> "null", C |-> C]
  ELSE IF key = Undefined THEN [k |-> "undefined", C |-> C]
  ELSE IF ~IsObject(key) THEN [k |-> ToString(key), C |-> C]
  ELSE IF IsArray(h, key) /\ C.depth >= StackLimit
    THEN [k |-> "", C |-> [C EXCEPT !.ovf = TRUE]]
  ELSE IF IsArray(h, key)
    THEN arrayKey(joinItems([C EXCEPT !.depth = @ + 1], h, Fields(h, key), 1, ""))
  ELSE IF NodeOf(key) \in DOMAIN C.objectRefs
    THEN [k |-> C.objectRefs[NodeOf(key)], C |-> C]
  ELSE objectKey(C, h, key, "obj:" \o Token(C.rnd + 1))

\* generateKey of a function: typeof key !== 'object', and JSON.stringify of a
\* function is undefined, which Array.prototype.join renders as "".
functionKey(r) == ""

\* generateKey([state, recipe, cacheKey])
tupleEnd(g, r, pre) == prefixed(pre \o "," \o functionKey(r) \o ",", g)

tupleRest(g, h, r, ck) == tupleEnd(generateKey(g.C, h, ck), r, g.k)

tupleKey(C, h, s, r, ck) ==
  prefixed("array:", tupleRest(generateKey(C, h, s), h, r, ck))

\* addToLRU: the new node becomes the head
addToLRU(l, key) == <<key>> \o l

\* The first node from the head with that key (0: none).
RECURSIVE nodeOf(_, _, _)
nodeOf(l, key, i) ==
  IF i > Len(l) THEN 0 ELSE IF l[i] = key THEN i ELSE nodeOf(l, key, i + 1)

unlinked(l, i) == SubSeq(l, 1, i - 1) \o SubSeq(l, i + 1, Len(l))

\* touch: the node found is unlinked and becomes the head
touch(l, key) ==
  IF nodeOf(l, key, 1) = 0 THEN l
  ELSE <<key>> \o unlinked(l, nodeOf(l, key, 1))

\* evictLRU: this.cache.delete(this.tail.key); the tail is unlinked
evictLRU(C) ==
  IF C.lru = <<>> THEN C
  ELSE [C EXCEPT !.cache = DelField(@, C.lru[Len(C.lru)]),
                 !.lru = SubSeq(@, 1, Len(@) - 1)]

Size(C) == Cardinality(DOMAIN C.cache)

\* if (this.cache.size >= this.maxSize) this.evictLRU()
atCapacity(C) == IF Size(C) >= maxSize THEN evictLRU(C) ELSE C

\* this.cache.set(stringKey, value); this.addToLRU(stringKey)
stored(C, k, value) ==
  [C EXCEPT !.cache = PutField(@, k, value), !.lru = addToLRU(@, k)]

\* Cache.get after the key derivation g: [v, C, key, hit]
cacheGot(g) ==
  IF g.k \notin DOMAIN g.C.cache \/ g.C.cache[g.k] = Undefined
    THEN [v |-> Undefined, C |-> g.C, key |-> g.k, hit |-> FALSE]
    ELSE [v |-> g.C.cache[g.k], C |-> [g.C EXCEPT !.lru = touch(@, g.k)],
          key |-> g.k, hit |-> TRUE]

\* Cache.set after the key derivation g: [C, key]
cacheSet(g, value) == [C |-> stored(atCapacity(g.C), g.k, value), key |-> g.k]

\* A clear that empties the Map and keeps the list.
cacheClearMap(C) == [C EXCEPT !.cache = <<>>]

\* Cache.clear
cacheClear(C) == [C EXCEPT !.cache = <<>>, !.lru = <<>>]

\* if (cachedResult): the values that count as no result
Falsy(v) == v \in {0, Null, Undefined}

\* produceMemoized of memo.ts (196-222): [call, C, get, set]; get and set
\* are what Cache.get and Cache.set gave (set.key = "": set was not called).
NotSet(C) == [C |-> C, key |-> ""]

pmStored(call, g, st) == [call |-> call, C |-> st.C, get |-> g, set |-> st]

\* A miss that stores the result under the string the lookup derived.
pmMissedSameKey(call, g, s, r, ck) ==
  IF ~Returned(call) THEN pmStored(call, g, NotSet(g.C))
  ELSE pmStored(call, g, cacheSet([k |-> g.key, C |-> g.C], call.result))

pmMissed(call, g, s, r, ck) ==
  IF ~Returned(call) THEN pmStored(call, g, NotSet(g.C))
  ELSE pmStored(call, g, cacheSet(tupleKey(g.C, call.heap, s, r, ck), call.result))

pmGot(g, h, s, r, ck) ==
  IF ~Falsy(g.v) THEN pmStored(hitCall(h, g.v), g, NotSet(g.C))
  ELSE pmMissed(produce(h, s, r), g, s, r, ck)

produceMemoized(C, h, s, r, ck) == pmGot(cacheGot(tupleKey(C, h, s, r, ck)), h, s, r, ck)

\* Cache.get was not called.
NoGet(C) == [v |-> Undefined, C |-> C, key |-> "", hit |-> FALSE]

\* A skipCache call that stores its result all the same.
pmSkippedStored(C, h, s, r) ==
  pmStored(produce(h, s, r), NoGet(C),
           cacheSet(tupleKey(C, h, s, r, Undefined), produce(h, s, r).result))

\* if (options?.skipCache) return produce(state, recipe)
pmSkipped(C, h, s, r) == pmStored(produce(h, s, r), NoGet(C), NotSet(C))

\* produceMemoized(state, recipe, options), options = [cacheKey, skipCache]
produceMemoizedWith(C, h, s, r, options) ==
  IF options.skipCache THEN pmSkipped(C, h, s, r)
  ELSE produceMemoized(C, h, s, r, options.cacheKey)

\* The Cache of the variables.
TheCache ==
  [cache |-> cache, lru |-> lru, objectRefs |-> objectRefs, rnd |-> rnd,
   depth |-> 0, ovf |-> FALSE]

SetCache(C) ==
  /\ cache' = C.cache
  /\ lru' = C.lru
  /\ objectRefs' = C.objectRefs
  /\ rnd' = C.rnd

\* One operation in the trace: hit is the outcome of a get, and for a set
\* whether the key was present; size is the number of entries before the
\* operation and lost the keys it deleted from the Map.
Op(name, key, hit, size, lost) ==
  [name |-> name, key |-> key, hit |-> hit, size |-> size, lost |-> lost]

\* The keys a set on the cache C deletes.
Evicted(C) == DOMAIN C.cache \ DOMAIN atCapacity(C).cache

SetOp(g) == Op("set", g.k, g.k \in DOMAIN g.C.cache, Size(g.C), Evicted(g.C))

GetOp(x) == Op("get", x.key, x.hit, Size(x.C), {})

-----------------------------------------------------------------------------
\* The operations on one Cache: get, set and clear of the class, and
\* produceMemoized and clearMemoizationCache of memo.ts, which work on the
\* Cache produceCache.

DirectKeys == 1..(maxSize + 1)     \* keys handed to get and set
Vals == {1}                        \* values handed to set
LruStates == {Ref(1), 0}           \* states handed to produceMemoized
LruRecipes == { r \in Recipes : r.text \in {"nop", "inc", "fail"} }
CacheKeys == {Undefined, 1}        \* options.cacheKey
\* states handed to produceMemoized: { count: 0 } and
\* { items: [{ count: 0 }], count: 0 }
CacheShapes == {
  << Obj(2 :> 0) >>,
  << Obj((1 :> Ref(2)) @@ (2 :> 0)), Arr(<<Ref(3)>>), Obj(2 :> 0) >> }

CacheInit ==
  /\ ChainIdle
  /\ QueueIdle
  /\ MemoIdle
  /\ CacheIdle
  /\ \E h \in CacheShapes : CoreIdle(h, Ref(1))

didSet(g, v) ==
  /\ SetCache(cacheSet(g, v).C)
  /\ trace' = Append(trace, SetOp(g))
  /\ UNCHANGED <<got, coreVars, chainVars, queueVars, memoVars>>

\* cache.set(key, value)
CacheSet(key, v) ==
  /\ Len(trace) < MaxCacheOps
  /\ ~generateKey(TheCache, heap, key).C.ovf
  /\ didSet(generateKey(TheCache, heap, key), v)

didGet(x) ==
  /\ SetCache(x.C)
  /\ got' = x.v
  /\ trace' = Append(trace, GetOp(x))
  /\ UNCHANGED <<coreVars, chainVars, queueVars, memoVars>>

\* cache.get(key)
CacheGet(key) ==
  /\ Len(trace) < MaxCacheOps
  /\ ~generateKey(TheCache, heap, key).C.ovf
  /\ didGet(cacheGot(generateKey(TheCache, heap, key)))

\* cache.clear(), clearMemoizationCache()
CacheClear ==
  /\ Len(trace) < MaxCacheOps
  /\ SetCache(cacheClear(TheCache))
  /\ trace' = Append(trace, Op("clear", "", FALSE, Size(TheCache), DOMAIN cache))
  /\ UNCHANGED <<got, coreVars, chainVars, queueVars, memoVars>>

\* What the call m adds to the trace.
Traced(m) ==
  (IF m.get.key = "" THEN <<>> ELSE <<GetOp(m.get)>>)
    \o (IF m.set.key = "" THEN <<>>
        ELSE <<SetOp([k |-> m.set.key, C |-> m.get.C])>>)

lruMemoized(s, r, ck, m) ==
  /\ Modelled(m.call)
  /\ SetCall(m.call)
  /\ SetCache(m.C)
  /\ got' = IF m.get.key = "" THEN got ELSE m.get.v
  /\ trace' = trace \o Traced(m)
  /\ snaps' = Append(snaps, [state |-> s, recipe |-> r, cacheKey |-> ck,
                             skipCache |-> m.get.key = "",
                             getKey |-> m.get.key, setKey |-> m.set.key,
                             hit |-> m.call.invoked = <<>>,
                             returned |-> Returned(m.call),
                             result |-> m.call.result,
                             from |-> Len(trace), at |-> Len(trace')])
  /\ state' = s
  /\ mode' = "lru"
  /\ orig' = heap
  /\ log' = r.ops
  /\ raisedIn' = IF m.call.thrown # NoError THEN 1 ELSE 0
  /\ UNCHANGED <<mheap, edgesKept, queueVars, memoVars>>

\* produceMemoized(state, recipe, { cacheKey })
ProduceMemoized(s, r, ck) ==
  /\ Len(trace) < MaxCacheOps
  /\ Len(snaps) < MaxCalls
  /\ lruMemoized(s, r, ck, produceMemoized(TheCache, heap, s, r, ck))

\* The recipes handed to the calls with skipCache.
SkipRecipes == { r \in Recipes : r.text \in {"nop", "reset"} }

\* produceMemoized(state, recipe, { skipCache: true })
ProduceSkipCache(s, r) ==
  /\ Len(snaps) < MaxCalls
  /\ lruMemoized(s, r, Undefined,
                 produceMemoizedWith(TheCache, heap, s, r,
                                     [cacheKey |-> Undefined, skipCache |-> TRUE]))

SpecLruNext ==
  \/ \E s \in LruStates, r \in LruRecipes, ck \in CacheKeys : ProduceMemoized(s, r, ck)
  \/ CacheClear

SpecLru == CacheInit /\ [][SpecLruNext]_vars

SpecCacheNext ==
  \/ \E key \in DirectKeys, v \in Vals : CacheSet(key, v)
  \/ \E key \in DirectKeys : CacheGet(key)
  \/ CacheClear
  \/ \E s \in LruStates : ProduceMemoized(s, Recipe("nop", <<>>), Undefined)

SpecCache == CacheInit /\ [][SpecCacheNext]_vars

\* One unit of time passes; nothing of the cache reads the clock.
Tick ==
  /\ Len(trace) < MaxCacheOps
  /\ trace' = Append(trace, Op("tick", "", FALSE, Size(TheCache), {}))
  /\ UNCHANGED <<cache, lru, objectRefs, rnd, got, coreVars, chainVars,
                 queueVars, memoVars>>

\* new Cache({ maxSize, ttl }): sets and gets while time passes. The
\* constructor stores ttl (memo.ts:22); get and set never read it.
SpecTtlNext ==
  \/ \E key \in DirectKeys, v \in Vals : CacheSet(key, v)
  \/ \E key \in DirectKeys : CacheGet(key)
  \/ Tick

SpecTtl == CacheInit /\ [][SpecTtlNext]_vars

\* Memoized calls and calls with skipCache, and clears.
SpecSkipNext ==
  \/ \E s \in LruStates, r \in SkipRecipes : ProduceMemoized(s, r, Undefined)
  \/ \E s \in LruStates, r \in SkipRecipes : ProduceSkipCache(s, r)
  \/ CacheClear

SpecSkip == CacheInit /\ [][SpecSkipNext]_vars

\* The latest produceMemoized call.
Last == snaps[Len(snaps)]

\* Calls i and j have the same state, recipe and cacheKey.
SameTuple(i, j) ==
  /\ snaps[i].state = snaps[j].state
  /\ snaps[i].recipe = snaps[j].recipe
  /\ snaps[i].cacheKey = snaps[j].cacheKey

\* Between call i and the latest call nothing was cleared or evicted.
Undisturbed(i) ==
  \A t \in (snaps[i].at + 1)..Last.from :
    trace[t].name # "clear" /\ trace[t].lost = {}

\* C14 (memoized hit): after produceMemoized(state, recipe) returned for an
\* object state, a later call with the same state, recipe and cacheKey, with no
\* clear and no eviction in between, invokes no recipe and returns the stored
\* snapshot, which is deep-equal to (the same object as) the first result.
C14_MemoizedHit ==
  (mode = "lru" /\ snaps # <<>>) =>
    \A i \in 1..(Len(snaps) - 1) :
      (SameTuple(i, Len(snaps)) /\ IsObject(state) /\ snaps[i].returned /\ Undisturbed(i)) =>
        /\ pc = "returned"
        /\ invoked = <<>>
        /\ result = snaps[i].result
        /\ DeepEqual(heap, result, heap, snaps[i].result)

\* produceMemoized(s, inc) ran the recipe and stored {count: 1}; the same call
\* again ran no recipe and returned that object.
C14_Witness ==
  /\ mode = "lru" /\ Len(snaps) = 2 /\ pc = "returned"
  /\ IsObject(state) /\ SameTuple(1, 2)
  /\ ~snaps[1].hit /\ snaps[1].returned /\ snaps[1].recipe.text = "inc"
  /\ Last.hit /\ invoked = <<>>
  /\ result = snaps[1].result
  /\ heap[NodeOf(state)].f = (2 :> 0)
  /\ heap[NodeOf(result)].f \in {(2 :> 1), (2 :> 2)}

\* The key strings call i derived.
KeysOf(i) == {snaps[i].getKey, snaps[i].setKey} \ {""}

\* C15 (the key depends on the recipe): two produceMemoized calls with the same
\* state and different recipe functions derive different keys, and each
\* returns the result of its own recipe.
C15_KeyDependsOnRecipe ==
  (mode = "lru" /\ snaps # <<>>) =>
    \A i \in 1..(Len(snaps) - 1) :
      (snaps[i].state = state /\ snaps[i].recipe # Last.recipe) =>
        /\ KeysOf(i) \cap KeysOf(Len(snaps)) = {}
        /\ pc = "returned" =>
             /\ Returned(Plain)
             /\ DeepEqual(heap, result, Plain.heap, Plain.result)

\* C17 (deterministic key derivation): every derivation of the key of one
\* (state, recipe, cacheKey) tuple gives the same string, the first as well
\* as the later ones.
C17_KeyDeterministic ==
  \A i, j \in DOMAIN snaps :
    (mode = "lru" /\ SameTuple(i, j)) => KeysOf(i) \cup KeysOf(j) = {snaps[i].getKey}

\* C18 (capacity bound): the number of stored entries never exceeds maxSize.
C18_CapacityBound == Cardinality(DOMAIN cache) <= maxSize

\* The latest operation on the Cache, and the number of operations.
LastOp == trace[Len(trace)]
Now == Len(trace)

\* Operation i was an access of its key: an insert or a hit.
Access(i) == trace[i].name = "set" \/ (trace[i].name = "get" /\ trace[i].hit)

\* The last access of the key k among the first n operations (0: none).
LastUse(k, n) ==
  IF \E i \in 1..n : trace[i].key = k /\ Access(i)
    THEN CHOOSE i \in 1..n :
           /\ trace[i].key = k /\ Access(i)
           /\ \A j \in (i + 1)..n : ~(trace[j].key = k /\ Access(j))
    ELSE 0

\* The keys of the entries before the latest operation, a set.
Before ==
  (DOMAIN cache \ {LastOp.key}) \cup LastOp.lost
    \cup (IF LastOp.hit THEN {LastOp.key} ELSE {})

\* Of the keys K those whose last access before the latest operation is oldest.
Oldest(K) ==
  { x \in K : \A y \in K : LastUse(x, Now - 1) <= LastUse(y, Now - 1) }

\* The latest operations were maxSize + 1 sets of distinct keys into an empty
\* cache.
FreshInserts ==
  /\ Now >= maxSize + 1
  /\ Now = maxSize + 1 \/ trace[Now - maxSize - 1].name = "clear"
  /\ \A i \in (Now - maxSize)..Now : trace[i].name = "set"
  /\ \A i, j \in (Now - maxSize)..Now : i # j => trace[i].key # trace[j].key

\* The latest operation was a set on a cache at capacity.
SetAtCapacity == trace # <<>> /\ LastOp.name = "set" /\ LastOp.size >= maxSize

\* C19 (LRU eviction): after maxSize + 1 distinct keys were inserted into an
\* empty cache with no lookup in between, the first of them is absent and the
\* others are present; and every set at capacity evicts exactly the entry
\* whose last access (insert or hit) is oldest.
C19_LruEviction ==
  /\ FreshInserts =>
       /\ trace[Now - maxSize].key \notin DOMAIN cache
       /\ \A i \in (Now - maxSize + 1)..Now : trace[i].key \in DOMAIN cache
  /\ SetAtCapacity => LastOp.lost = Oldest(Before)

\* The latest two operations: a hit, then a set of a new key at capacity.
HitThenSet ==
  /\ Now >= 2
  /\ trace[Now - 1].name = "get" /\ trace[Now - 1].hit
  /\ SetAtCapacity /\ ~LastOp.hit

\* The step is a get that missed, and nothing else.
MissStep ==
  /\ Len(trace') = Now + 1
  /\ trace'[Now + 1].name = "get" /\ ~trace'[Now + 1].hit

\* C20 (recency bump): a get that hits makes its entry the most recently used
\* one, so that a set of a new key at capacity right after it evicts not the
\* looked-up entry but the oldest of the others; a get that misses changes
\* neither the entries nor their order.
C20_RecencyBump ==
  /\ [](/\ (trace # <<>> /\ LastOp.name = "get" /\ LastOp.hit) =>
             (lru # <<>> /\ lru[1] = LastOp.key)
        /\ HitThenSet =>
             /\ trace[Now - 1].key \in DOMAIN cache
             /\ LastOp.lost = Oldest(Before \ {trace[Now - 1].key}))
  /\ [][MissStep => (cache' = cache /\ lru' = lru)]_vars

\* ---------------------------------------------------------------------
\* The recency list and the hash index (memo.ts:83-103, 116-181)

\* The keys of the nodes of the recency list.
Listed == { lru[i] : i \in DOMAIN lru }

\* C21 (list/index synchronisation): after any sequence of get, set and
\* clear the recency list holds exactly the keys of the hash index, each of
\* them once, and head and tail are null exactly when the cache is empty.
\* (The list is a sequence here, so prev and next agree by construction.)
C21_ListIndexSync ==
  /\ Listed = DOMAIN cache
  /\ Len(lru) = Cardinality(DOMAIN cache)
  /\ (lru = <<>>) <=> (DOMAIN cache = {})

\* ---------------------------------------------------------------------
\* clear (memo.ts:98-103, 224-226)

\* A cache as the constructor leaves it, as far as entries and list go.
Fresh(C) == [C EXCEPT !.cache = <<>>, !.lru = <<>>]

\* The latest clear of the trace (0: none).
LastClear ==
  IF \E c \in DOMAIN trace : trace[c].name = "clear"
    THEN CHOOSE c \in DOMAIN trace :
           /\ trace[c].name = "clear"
           /\ \A d \in DOMAIN trace : trace[d].name = "clear" => d <= c
    ELSE 0

\* No set between operation c and operation j.
NoSetBetween(c, j) == \A m \in (c + 1)..(j - 1) : trace[m].name # "set"

\* The operations i..Now of the trace are what they are on the cache C, and
\* they leave the entries and the order of the variables.
RECURSIVE Replays(_, _)
Replays(C, i) ==
  IF i > Now THEN DOMAIN C.cache = DOMAIN cache /\ C.lru = lru
  ELSE IF trace[i].name = "set"
    THEN /\ trace[i] = SetOp([k |-> trace[i].key, C |-> C])
         /\ Replays(cacheSet([k |-> trace[i].key, C |-> C], 1).C, i + 1)
  ELSE IF trace[i].name = "get"
    THEN /\ trace[i].hit = (trace[i].key \in DOMAIN C.cache)
         /\ trace[i].size = Size(C)
         /\ Replays(IF trace[i].hit THEN [C EXCEPT !.lru = touch(@, trace[i].key)]
                    ELSE C, i + 1)
  ELSE FALSE

\* C24 (clear): right after clearMemoizationCache the size is 0; every
\* lookup made before the next insert misses, so a produceMemoized call
\* right after the clear runs its recipe; and the inserts, hits and
\* evictions after the clear are those of a fresh cache.
C24_ClearDropsAll ==
  /\ (trace # <<>> /\ LastOp.name = "clear") => (Size(TheCache) = 0 /\ lru = <<>>)
  /\ \A j \in DOMAIN trace :
       (trace[j].name = "get" /\ LastClear > 0 /\ LastClear < j
          /\ NoSetBetween(LastClear, j)) => ~trace[j].hit
  /\ \A i \in DOMAIN snaps :
       (snaps[i].from > 0 /\ trace[snaps[i].from].name = "clear") => ~snaps[i].hit
  /\ LastClear > 0 => Replays(Fresh(TheCache), LastClear + 1)

\* A memoized call stored its result, the cache was cleared, and the same
\* call ran its recipe again and stored again.
C24_Witness ==
  /\ Len(snaps) = 2 /\ SameTuple(1, 2)
  /\ snaps[1].setKey # ""
  /\ Last.from > 0 /\ trace[Last.from].name = "clear" /\ trace[Last.from].size > 0
  /\ ~Last.hit /\ Last.setKey \in DOMAIN cache /\ lru = <<Last.setKey>>

\* ---------------------------------------------------------------------
\* Failure on the miss path (memo.ts:208-222)

\* Call i missed the cache and its recipe raised.
FailedMiss(i) == ~snaps[i].hit /\ ~snaps[i].returned

\* The step is a produceMemoized call that missed and whose recipe raised.
FailStep ==
  /\ Len(snaps') = Len(snaps) + 1
  /\ ~snaps'[Len(snaps')].hit /\ ~snaps'[Len(snaps')].returned

\* C23 (failure on the miss path): when the recipe raises in a call that
\* misses, the caller gets the ISEError, the entries are those of before the
\* call, and every later call with the same arguments is a miss again and
\* runs the recipe again.
C23_FailedMiss ==
  /\ [](/\ (mode = "lru" /\ snaps # <<>> /\ FailedMiss(Len(snaps))) =>
             (error.name = "ISEError" /\ Last.setKey = "")
        /\ \A i, j \in DOMAIN snaps :
             (i < j /\ SameTuple(i, j) /\ FailedMiss(i)) => ~snaps[j].hit)
  /\ [][FailStep => cache' = cache]_vars

\* ---------------------------------------------------------------------
\* skipCache (memo.ts:204-206)

\* The step is a produceMemoized call with options.skipCache.
SkipStep ==
  /\ Len(snaps') = Len(snaps) + 1
  /\ snaps'[Len(snaps')].skipCache

\* C22 (skipCache): a call with options.skipCache leaves the entries, the
\* recency order and the key registry as they are and makes no lookup and no
\* insert, invokes the recipe, and gives what produce(state, recipe) gives,
\* whether or not an entry for the same state and recipe exists.
C22_SkipCache ==
  [][SkipStep =>
       /\ cache' = cache /\ lru' = lru
       /\ objectRefs' = objectRefs /\ rnd' = rnd
       /\ trace' = trace
       /\ invoked' # <<>>
       /\ result' = produce(heap, state', snaps'[Len(snaps')].recipe).result
       /\ heap' = produce(heap, state', snaps'[Len(snaps')].recipe).heap
       /\ error' = produce(heap, state', snaps'[Len(snaps')].recipe).error]_vars

\* A call with skipCache was made while the cache held the result of the same
\* call without it; it ran the recipe and returned a new object.
C22_Witness ==
  /\ snaps # <<>> /\ Last.skipCache /\ Last.returned /\ ~Last.hit
  /\ \E i \in 1..(Len(snaps) - 1) :
       /\ SameTuple(i, Len(snaps)) /\ ~snaps[i].skipCache
       /\ snaps[i].setKey \in DOMAIN cache
       /\ cache[snaps[i].setKey] = snaps[i].result
       /\ IsObject(result) /\ result # snaps[i].result
  /\ mode = "lru" /\ invoked # <<>>

\* ---------------------------------------------------------------------
\* Time-to-live (memo.ts:12-24, 69-81)

\* The ticks between operations i and j.
Age(i, j) == Cardinality({ m \in (i + 1)..(j - 1) : trace[m].name = "tick" })

\* Operation i is the latest set of the key of operation j before j.
StoredAt(i, j) ==
  /\ i < j /\ trace[i].name = "set" /\ trace[i].key = trace[j].key
  /\ \A m \in (i + 1)..(j - 1) :
       ~(trace[m].name = "set" /\ trace[m].key = trace[j].key)

\* C25 (time-to-live): in a cache configured with a TTL, a lookup of an
\* entry stored longer ago than the TTL finds nothing.
C25_TimeToLive ==
  \A j \in DOMAIN trace :
    (trace[j].name = "get" /\ \E i \in DOMAIN trace : StoredAt(i, j) /\ Age(i, j) > ttl)
      => ~trace[j].hit

-----------------------------------------------------------------------------
\* produceParallel and the default sharding strategy (parallel.ts).

\* ({ [key]: state[key] })
chunkOf(h, s, key) == PlainNode("obj", key :> Fields(h, s)[key])

\* Object.keys(state).map(key => ...): [heap, chunks]
RECURSIVE shardKeys(_, _, _, _, _)
shardKeys(h, s, keys, i, chunks) ==
  IF i > Len(keys) THEN [heap |-> h, chunks |-> chunks]
  ELSE shardKeys(Append(h, chunkOf(h, s, keys[i])), s, keys, i + 1,
                 Append(chunks, Ref(Len(h) + 1)))

\* defaultShardingStrategy().shard(state)
shard(h, s) ==
  IF ~IsObject(s) THEN [heap |-> h, chunks |-> <<s>>]
  ELSE shardKeys(h, s, ObjectKeys(h, s), 1, <<>>)

\* An Object.assign that keeps what the first source gave.
assignedFirst(f, h, c) ==
  IF IsObject(c) /\ DOMAIN f = {} THEN Fields(h, c) ELSE f

\* Object.assign(target, c): the own properties of an object source are
\* written over the target's; a number, null or undefined gives nothing.
assigned(f, h, c) == IF IsObject(c) THEN Fields(h, c) @@ f ELSE f

RECURSIVE assignAll(_, _, _, _)
assignAll(f, h, chunks, i) ==
  IF i > Len(chunks) THEN f
  ELSE assignAll(assigned(f, h, chunks[i]), h, chunks, i + 1)

\* defaultShardingStrategy().merge(chunks): [heap, result]
merge(h, chunks) ==
  [heap |-> Append(h, PlainNode("obj", assignAll(<<>>, h, chunks, 1))),
   result |-> Ref(Len(h) + 1)]

\* A length test that lets spare recipes pass.
mismatchedFewer(chunks, rs) == Len(chunks) > Len(rs)

\* if (chunks.length !== recipes.length)
mismatched(chunks, rs) == Len(chunks) # Len(rs)

\* throw new Error('Mismatched chunks and recipes')
Mismatch == Err("Error", <<"Mismatched chunks and recipes">>)

\* A map that hands the recipes out from the last one.
recipeReversed(rs, i) == rs[Len(rs) + 1 - i]

\* recipes[i]
recipeFor(rs, i) == rs[i]

\* What the produce calls made so far add up to.
NoPar == [invoked |-> <<>>, clones |-> 0, finalizes |-> 0, results |-> <<>>]

parAfter(acc, call, i) ==
  [invoked |-> Append(acc.invoked, [recipe |-> i, draft |-> call.invoked[1].draft]),
   clones |-> acc.clones + call.clones,
   finalizes |-> acc.finalizes + call.finalizes,
   results |-> IF Returned(call) THEN Append(acc.results, call.result)
               ELSE acc.results]

\* A produceParallel call that ended: the record of a call, with the chunks
\* and the results of the produce calls.
parCall(h, res, e, t, acc, chunks) ==
  [heap |-> h, result |-> res, error |-> e, thrown |-> t,
   invoked |-> acc.invoked, clones |-> acc.clones, finalizes |-> acc.finalizes,
   chunks |-> chunks, results |-> acc.results]

\* return strategy.merge(results)
parMerged(m, acc, chunks) == parCall(m.heap, m.result, NoError, NoError, acc, chunks)

\* chunks.map((chunk, i) => produce(chunk, recipes[i])), from chunk i on
RECURSIVE mapChunks(_, _, _, _, _)

mapChunk(call, chunks, rs, i, acc) ==
  IF ~Returned(call)
    THEN parCall(call.heap, 0, call.error, call.thrown, parAfter(acc, call, i), chunks)
    ELSE mapChunks(call.heap, chunks, rs, i + 1, parAfter(acc, call, i))

mapChunks(h, chunks, rs, i, acc) ==
  IF i > Len(chunks) THEN parMerged(merge(h, acc.results), acc, chunks)
  ELSE mapChunk(produce(h, chunks[i], recipeFor(rs, i)), chunks, rs, i, acc)

parSharded(sh, rs) ==
  IF mismatched(sh.chunks, rs)
    THEN parCall(sh.heap, 0, Mismatch, NoError, NoPar, sh.chunks)
    ELSE mapChunks(sh.heap, sh.chunks, rs, 1, NoPar)

\* produceParallel(state, recipes) on the heap h
produceParallel(h, s, rs) == parSharded(shard(h, s), rs)

\* The states handed to produceParallel: the shapes above and {}.
ParShapes == Shapes \cup { << Obj(<<>>) >> }

ParInit ==
  /\ ChainIdle
  /\ QueueIdle
  /\ MemoIdle
  /\ CacheIdle
  /\ \E h \in ParShapes, s \in {Ref(1), 0} : CoreIdle(h, s)

RecipeLists == UNION { [1..n -> Recipes] : n \in 0..MaxRecipes }

paralleled(s, rs, call, m) ==
  /\ Modelled(call)
  /\ SetCall(call)
  /\ snaps' = Append(snaps, [state |-> s, recipes |-> rs,
                             chunks |-> call.chunks, results |-> call.results])
  /\ mode' = m
  /\ orig' = heap
  /\ raisedIn' = IF call.thrown # NoError THEN 1 ELSE 0
  /\ UNCHANGED <<state, log, mheap, edgesKept, queueVars, memoVars, cacheVars>>

\* produceParallel(state, recipes)
ProduceParallel(rs) ==
  /\ pc = "idle"
  /\ paralleled(state, rs, produceParallel(heap, state, rs), "parallel")

roundTrip(sh) == parMerged(merge(sh.heap, sh.chunks), NoPar, sh.chunks)

\* strategy.merge(strategy.shard(state))
ShardMerge ==
  /\ pc = "idle"
  /\ paralleled(state, <<>>, roundTrip(shard(heap, state)), "merge")

SpecParallelNext ==
  \/ \E rs \in RecipeLists : ProduceParallel(rs)
  \/ ShardMerge

SpecParallel == ParInit /\ [][SpecParallelNext]_vars

\* The call was produceParallel with as many recipes as chunks.
Matched ==
  /\ mode = "parallel" /\ snaps # <<>>
  /\ Len(Last.chunks) = Len(Last.recipes)

\* produce(chunk_i, recipe_i), computed on the heap the call left.
Expected(i) == produce(heap, Last.chunks[i], Last.recipes[i])

\* The own properties of a value handed to Object.assign.
Own(v) == IF IsObject(v) THEN Fields(heap, v) ELSE <<>>

\* The result is a new object holding the properties of the values rs, each
\* property with the value the last of rs that has it gives.
MergedFrom(rs) ==
  /\ IsObject(result) /\ NodeOf(result) > Len(orig)
  /\ heap[NodeOf(result)].kind = "obj"
  /\ DOMAIN Own(result) = UNION { DOMAIN Own(rs[i]) : i \in DOMAIN rs }
  /\ \A i \in DOMAIN rs : \A k \in DOMAIN Own(rs[i]) :
       (\A j \in (i + 1)..Len(rs) : k \notin DOMAIN Own(rs[j]))
         => Own(result)[k] = Own(rs[i])[k]

\* Recipe i got a draft of chunk i: the chunk itself when it is no object,
\* else a Proxy made in this call, and no two recipes got the same one.
OwnDrafts ==
  \A i \in DOMAIN invoked :
    /\ invoked[i].recipe = i
    /\ IF IsObject(Last.chunks[i])
         THEN /\ IsObject(invoked[i].draft)
              /\ NodeOf(invoked[i].draft) > Len(orig)
              /\ heap[NodeOf(invoked[i].draft)].kind = "proxy"
              /\ \A j \in DOMAIN invoked : j # i => invoked[j].draft # invoked[i].draft
         ELSE invoked[i].draft = Last.chunks[i]

\* C28 (produceParallel): with as many recipes as chunks, recipe i is invoked
\* once, on a draft of chunk i; when all recipes return, result i is what
\* produce(chunk_i, recipe_i) gives and the value returned is the merge of
\* the results in chunk order; the call fails exactly at the first recipe
\* whose produce call fails; the state is as it was.
C28_ProduceParallel ==
  Matched =>
    /\ InputUnchanged
    /\ OwnDrafts
    /\ pc = "returned" =>
         /\ Len(invoked) = Len(Last.recipes)
         /\ Len(Last.results) = Len(Last.chunks)
         /\ \A i \in DOMAIN Last.chunks :
              /\ Returned(Expected(i))
              /\ DeepEqual(heap, Last.results[i], Expected(i).heap, Expected(i).result)
         /\ MergedFrom(Last.results)
    /\ pc = "failed" =>
         /\ invoked # <<>>
         /\ error = Expected(Len(invoked)).error
         /\ \A i \in 1..(Len(invoked) - 1) : Returned(Expected(i))

\* produceParallel({items: [{count: 0}], count: 0}, [each, inc]) returned
\* {items: [{count: 1}], count: 1 or 2}, and the state still has count 0.
C28_Witness ==
  /\ Matched /\ pc = "returned"
  /\ Len(Last.recipes) = 2
  /\ Last.recipes[1].text = "each" /\ Last.recipes[2].text = "inc"
  /\ Own(result)[2] \in {1, 2}
  /\ Own(Own(Own(result)[1])[1])[2] = 1
  /\ heap[NodeOf(state)].f[2] = 0

\* C26 (shard mismatch): when shard gives a number of chunks that is not the
\* number of recipes, produceParallel raises with no recipe invoked, no
\* produce call made and nothing merged (the heap holds the chunks and
\* nothing else new), and the state is as it was.
C26_ShardMismatch ==
  (mode = "parallel" /\ snaps # <<>> /\ Len(Last.chunks) # Len(Last.recipes)) =>
    /\ pc = "failed" /\ error = Mismatch
    /\ invoked = <<>> /\ clones = 0 /\ finalizes = 0
    /\ Last.results = <<>>
    /\ InputUnchanged
    /\ Len(heap) = Len(orig) + (IF IsObject(state) THEN Len(Last.chunks) ELSE 0)

\* produceParallel of a state with one key and two recipes raised.
C26_Witness ==
  /\ mode = "parallel" /\ snaps # <<>>
  /\ Len(Last.chunks) = 1 /\ Len(Last.recipes) = 2
  /\ IsObject(state)
  /\ pc = "failed" /\ error = Mismatch /\ invoked = <<>>

\* C27 (shard/merge round trip): for the default strategy and a plain-object
\* state s, shard(s) has one chunk per own key of s, each holding that key
\* with the value s has, and merge(shard(s)) is deep-equal to s.
C27_ShardMergeRoundTrip ==
  (mode = "merge" /\ snaps # <<>> /\ IsObject(state)) =>
    /\ pc = "returned"
    /\ DeepEqual(heap, result, orig, state)
    /\ Len(Last.chunks) = Cardinality(DOMAIN orig[NodeOf(state)].f)
    /\ \A i \in DOMAIN Last.chunks :
         Own(Last.chunks[i]) =
           (ObjectKeys(orig, state)[i] :> orig[NodeOf(state)].f[ObjectKeys(orig, state)[i]])
    /\ InputUnchanged

\* merge(shard({a: n, b: n})) is a new object whose a and b are the node n.
C27_Witness ==
  /\ mode = "merge" /\ snaps # <<>> /\ IsObject(state)
  /\ Len(Last.chunks) = 2
  /\ result # state
  /\ DOMAIN Own(result) = {1, 2}
  /\ Own(result)[1] = Own(result)[2] /\ Own(result)[1] = Ref(2)

-----------------------------------------------------------------------------
\* Draft identity (part_000:16-69).

\* The recipe of a produce call is running on a draft that is a Proxy.
InRecipe == mode = "produce" /\ pc = "recipe" /\ invoked # <<>> /\ IsObject(draft)

\* The property paths read: draft, draft.a, draft.a.b.
ReadPaths == {<<>>} \cup UNION { [1..n -> Keys] : n \in 1..2 }

\* draft.p, read now.
ReadNow(p) == walk(DS(heap, draftCache), draft, p)

\* After the read w gave a draft, the read of draft.q gives that same draft.
SameDraft(w, q) ==
  w.ok => (walk(w.ds, draft, q).ok /\ walk(w.ds, draft, q).v = w.v)

\* C29 (draft identity): while a recipe runs, reading the same property path
\* twice gives the same draft object (draft.a === draft.a), and as long as
\* the recipe has left the object-valued properties in place, two paths that
\* lead to one node of the state give one draft object (draft.a === draft.b
\* for a shared node, draft.data.self === draft.data for a cycle).
C29_DraftIdentity ==
  InRecipe =>
    \A p \in ReadPaths :
      /\ SameDraft(ReadNow(p), p)
      /\ edgesKept =>
           \A q \in ReadPaths : SameInInput(p, q) => SameDraft(ReadNow(p), q)

\* After draft.data.name = 1 on the cyclic state, draft.data.self and
\* draft.data are one Proxy, which is not the root draft.
C29_Witness ==
  /\ InRecipe /\ mode = "produce" /\ edgesKept
  /\ log = <<Cmd("set", <<1>>, 2, 0, 1, <<>>)>>
  /\ SameInInput(<<1, 1>>, <<1>>)
  /\ ReadNow(<<1, 1>>).ok
  /\ ReadNow(<<1, 1>>).v = ReadNow(<<1>>).v
  /\ ReadNow(<<1>>).v # draft
  /\ heap[NodeOf(ReadNow(<<1>>).v)].kind = "proxy"

-----------------------------------------------------------------------------
\* Writes made in the callback of an iteration method (part_000:34-42).

\* The snapshot shows the write of the iteration c: result.path[idx][key] is val.
ElementShows(c) ==
  /\ mwalk(heap, result, c.path).ok
  /\ c.idx \in DOMAIN heap[NodeOf(mwalk(heap, result, c.path).v)].f
  /\ IsObject(heap[NodeOf(mwalk(heap, result, c.path).v)].f[c.idx])
  /\ c.key \in DOMAIN Fields(heap, heap[NodeOf(mwalk(heap, result, c.path).v)].f[c.idx])
  /\ Fields(heap, heap[NodeOf(mwalk(heap, result, c.path).v)].f[c.idx])[c.key] = c.val

\* C30 (writes in iteration callbacks): when the last operation of a recipe
\* of property writes is draft.items.forEach(item => { item.key = val }), the
\* returned snapshot shows val at items[i].key, whether or not items[i] was
\* read or written through the draft earlier in the recipe.
C30_IterationWrites ==
  (mode = "produce" /\ pc = "returned" /\ log # <<>>
     /\ log[Len(log)].op = "iter" /\ Ops \subseteq {"iter", "set", "add"}) =>
    ElementShows(log[Len(log)])

-----------------------------------------------------------------------------
\* The snapshot produceParallel returns (parallel.ts:19-21, 44).

\* C39 (frozen result of produceParallel): with the default sharding strategy
\* the object produceParallel returns and every object and array reachable
\* from it are frozen.
C39_ParallelFrozen ==
  (mode = "parallel" /\ pc = "returned" /\ IsObject(result)) =>
    \A n \in Reach(heap, result) : heap[n].frozen

-----------------------------------------------------------------------------
\* Cache.set on a present key (memo.ts:83-96, 116-127).

\* The latest operation was a set of a key the Map already held.
SetPresent == trace # <<>> /\ LastOp.name = "set" /\ LastOp.hit

\* The number of nodes of the recency list that hold the key k.
Nodes(k) == Cardinality({ i \in DOMAIN lru : lru[i] = k })

\* C37 (set on a present key): a set of a key that is already present
\* leaves the size as it was and evicts nothing, also at capacity, and makes
\* the key the most recently used one, held by one node of the recency list.
C37_SetPresentKey ==
  SetPresent =>
    /\ Size(TheCache) = LastOp.size
    /\ LastOp.lost = {}
    /\ lru # <<>> /\ lru[1] = LastOp.key
    /\ Nodes(LastOp.key) = 1

-----------------------------------------------------------------------------
\* Falsy results (memo.ts:208-222).

\* The latest call repeats the immediately preceding one, whose result for
\* the primitive state was stored and is falsy.
FalsyRepeat ==
  /\ mode = "lru" /\ Len(snaps) >= 2
  /\ SameTuple(Len(snaps) - 1, Len(snaps))
  /\ ~IsObject(Last.state)
  /\ snaps[Len(snaps) - 1].returned /\ ~snaps[Len(snaps) - 1].skipCache
  /\ Falsy(snaps[Len(snaps) - 1].result)
  /\ Last.from = snaps[Len(snaps) - 1].at

\* C36 (falsy results): when produceMemoized is called twice with the same
\* primitive state and recipe and the result is falsy, the second call is a
\* hit: it runs no recipe and does not insert the key again.
C36_FalsyHit ==
  FalsyRepeat =>
    /\ invoked = <<>>
    /\ Last.setKey = ""
    /\ Nodes(Last.getKey) = 1

-----------------------------------------------------------------------------
\* Repeated execute (part_000:150-167).

\* The step is an execute call.
ExecStep == Len(execd') = Len(execd) + 1

\* C38 (execute does not consume the queue): an execute with no enqueue since
\* the previous execute ends as the previous one did, with a snapshot
\* deep-equal to the previous one, and leaves the queue as it is; and every
\* execute applies all recipes enqueued since construction, in order, to the
\* state given at construction.
C38_ExecuteKeepsQueue ==
  /\ [](/\ queues[1].queue = enq
        /\ queues[1].state = Ref(1)
        /\ execd # <<>> =>
             /\ pc = "returned" =>
                  DeepEqual(heap, result, batchProduce(orig, Ref(1), Enqueued).heap,
                            batchProduce(orig, Ref(1), Enqueued).result)
             /\ pc = "failed" => error = batchProduce(orig, Ref(1), Enqueued).error)
  /\ [][(ExecStep /\ execd # <<>> /\ Enqueued = enq) =>
          /\ pc' = pc /\ error' = error
          /\ pc = "returned" => DeepEqual(heap', result', heap, result)
          /\ queues' = queues]_vars

\* Two execute calls, two recipes enqueued before the first and none between
\* them: both returned, and the snapshot is not deep-equal to the state.
C38_Witness ==
  /\ Len(execd) = 2 /\ execd[1] = execd[2] /\ Len(enq) = 2
  /\ pc = "returned" /\ result # 0
  /\ ~DeepEqual(heap, result, heap, state)

-----------------------------------------------------------------------------
\* Aliases made in a recipe (part_000:44-59, 77-91).

\* The recipe began with draft.b = draft.a, a and b two properties of the
\* root and state.a an object other than the state itself.
AliasMade ==
  /\ mode = "produce" /\ log # <<>>
  /\ log[1].op = "setAlias" /\ log[1].path = <<>>
  /\ Len(log[1].src) = 1 /\ log[1].src[1] # log[1].key
  /\ mwalk(orig, state, log[1].src).ok
  /\ ~SameInInput(log[1].src, <<>>)

\* The recipe then wrote a primitive through draft.a or through draft.b.
WroteThroughAlias ==
  /\ Len(log) = 2 /\ log[2].op = "set"
  /\ log[2].path \in {log[1].src, <<log[1].key>>}

\* C35 (aliases made in a recipe): after draft.b = draft.a, result.b and
\* result.a are one node of the returned snapshot, and a write made
\* afterwards through either name shows under both.
C35_AliasInRecipe ==
  (AliasMade /\ pc = "returned") =>
    /\ SameInResult(<<log[1].key>>, log[1].src)
    /\ WroteThroughAlias =>
         (ShowsAt(<<log[1].key>>, log[2]) /\ ShowsAt(log[1].src, log[2]))

-----------------------------------------------------------------------------
\* Objects of the caller assigned to the draft (part_000:44-63).

\* The recipe began with draft.path[key] = v, v a new object of the caller;
\* the path does not pass through the node it leads to, so it still leads to
\* that node after the assignment.
NewAssigned ==
  /\ mode = "produce" /\ log # <<>> /\ log[1].op = "setNew"
  /\ \A i \in 0..(Len(log[1].path) - 1) :
       ~SameInInput(SubSeq(log[1].path, 1, i), log[1].path)

\* The property the object was assigned to, as a path from the draft.
AssignedAt == log[1].path \o <<log[1].key>>

\* The node of v: the assignment put it at the end of the heap that the read
\* of draft.path had left.
EnteredDS == DS(produceEnter(orig, state).heap, produceEnter(orig, state).draftCache)
AssignedNode ==
  Len(walk(EnteredDS, produceEnter(orig, state).draft, log[1].path).ds.heap) + 1

\* The later operations left the assigned property where it is: they worked
\* on the assigned object, or wrote a primitive to another property beside it.
AssignedStays ==
  \A i \in 2..Len(log) :
    \/ log[i].path = AssignedAt
    \/ log[i].path = log[1].path /\ log[i].op \in {"set", "add"}
         /\ log[i].key # log[1].key

\* The recipe went on, and its last operation was draft.path[key][k] = 1.
WroteThroughAssigned ==
  /\ Len(log) >= 2 /\ AssignedStays
  /\ log[Len(log)].op = "set" /\ log[Len(log)].path = AssignedAt

\* C34 (assigning an object): after draft.p = v, v a new object of the caller,
\* every later read of draft.p in the same call gives one and the same draft,
\* a write made through that draft is under p in the returned snapshot, and v
\* itself is as the caller made it, whatever the recipe does next and however
\* the call ends.
C34_AssignObject ==
  NewAssigned =>
    /\ heap[AssignedNode] = PlainNode("obj", <<>>)
    /\ (pc = "recipe" /\ AssignedStays) =>
         /\ ReadNow(AssignedAt).ok
         /\ ReadNow(AssignedAt).ds.heap[NodeOf(ReadNow(AssignedAt).v)].kind = "proxy"
         /\ SameDraft(ReadNow(AssignedAt), AssignedAt)
    /\ (pc = "returned" /\ WroteThroughAssigned) =>
         ShowsAt(AssignedAt, log[Len(log)])

\* draft.data.name = {}; draft.data.name.name = 1 has returned: the snapshot
\* has the write under data.name and the caller's object is still empty.
C34_Witness ==
  /\ NewAssigned /\ WroteThroughAssigned /\ pc = "returned"
  /\ log[1].path = <<1>>
  /\ ShowsAt(AssignedAt, log[Len(log)])
  /\ heap[AssignedNode] = PlainNode("obj", <<>>)

-----------------------------------------------------------------------------
\* The working copy (part_000:96-108, 115-116).

\* Nodes of the input graph: the heap as it was when the call was made.
InputNode(n) == n <= Len(orig)

\* stateCopy: the value the root draft was made of.
WorkingCopy == CHOOSE n \in DOMAIN draftCache : draftCache[n] = NodeOf(draft)

\* Nothing made since the call refers to a node of the input: no property of
\* a clone, of a draft's target or of a snapshot, no target of a Proxy and no
\* key of draftCache.
NoInputShared ==
  /\ \A n \in DOMAIN heap :
       ~InputNode(n) =>
         /\ \A k \in DOMAIN heap[n].f :
              IsObject(heap[n].f[k]) => ~InputNode(NodeOf(heap[n].f[k]))
         /\ heap[n].kind = "proxy" => ~InputNode(heap[n].target)
  /\ \A n \in DOMAIN draftCache : ~InputNode(n) /\ ~InputNode(draftCache[n])

\* C33 (clone independence): from the moment a call has made its working
\* copy, no clone, draft target or snapshot node refers to a node
\* of the input graph, and after every write, delete, push, splice and write
\* to an element handed out by forEach every node of the input is as it was.
C33_CloneIndependence ==
  (mode \in {"produce", "batch"} /\ pc # "idle") =>
    (NoInputShared /\ InputUnchanged)

\* A forEach callback has written to an element of the working copy itself
\* and the recipe has deleted a property: the copy differs from the input,
\* the input has not changed.
C33_Witness ==
  /\ mode = "produce" /\ pc = "recipe" /\ Ops = {"iter", "delete"}
  /\ ~DeepEqual(heap, Ref(WorkingCopy), orig, state)
  /\ Len(orig) >= 2
  /\ NoInputShared /\ InputUnchanged

-----------------------------------------------------------------------------
\* Termination (part_000:77-91, 97-108).

\* The nodes the call has frozen: the result shells finalize made.
Shells == { n \in DOMAIN heap : ~InputNode(n) /\ heap[n].frozen }

\* The nodes deepClone made: what the call added to the heap before the root
\* draft's target and Proxy.
CloneCount == Len(produceEnter(orig, state).heap) - Len(orig) - 2

\* C31 (termination on cycles): for every state graph, cycles included, and
\* every recipe whose operations end, produce ends without exhausting the
\* stack: it returns, or fails with the error the recipe raised.  deepClone
\* makes one clone for each node of the state, and finalizeDraft one result
\* shell for each node of the snapshot.
C31_Termination ==
  (mode = "produce" /\ pc \in {"returned", "failed"}) =>
    /\ pc = "failed" => (thrown # StackOverflow /\ error # StackOverflow)
    /\ CloneCount = Cardinality(Reach(orig, state))
    /\ (pc = "returned" /\ IsObject(result)) => Shells = Reach(heap, result)

-----------------------------------------------------------------------------
\* Key derivation on graphs (memo.ts:26-67).

MaxKeyOps == 3

\* The graphs whose nodes are handed to get and set as keys:
\*   { count: 0 }                          o = {}; o.self = o
\*   [1, { count: 0 }]                     a = []; a.push(a)
\*   o = { items: a }; a = [o]             a = [b]; b = [a]
KeyShapes == {
  << Obj(2 :> 0) >>,
  << Obj(1 :> Ref(1)) >>,
  << Arr(<<1, Ref(2)>>), Obj(2 :> 0) >>,
  << Arr(<<Ref(1)>>) >>,
  << Obj(1 :> Ref(2)), Arr(<<Ref(1)>>) >>,
  << Arr(<<Ref(2)>>), Arr(<<Ref(1)>>) >> }

KeyValues == {Null, Undefined, 1} \cup { Ref(n) : n \in DOMAIN heap }

KeyInit ==
  /\ ChainIdle
  /\ QueueIdle
  /\ MemoIdle
  /\ CacheIdle
  /\ \E h \in KeyShapes : CoreIdle(h, Ref(1))

\* cache.get(key) with a key of the graph
KeyGet(key) == Len(trace) < MaxKeyOps /\ CacheGet(key)

\* cache.set(key, value) with a key of the graph
KeySet(key, v) == Len(trace) < MaxKeyOps /\ CacheSet(key, v)

\* cache.get(key) or cache.set(key, value) ends in the RangeError of
\* generateKey: nothing is read or stored; the identity tokens registered on
\* the way stay.
KeyRaise(name, key) ==
  /\ Len(trace) < MaxKeyOps
  /\ generateKey(TheCache, heap, key).C.ovf
  /\ SetCache(generateKey(TheCache, heap, key).C)
  /\ trace' = Append(trace, Op("raise", name, FALSE, Size(TheCache), {}))
  /\ UNCHANGED <<got, coreVars, chainVars, queueVars, memoVars>>

SpecKeyNext ==
  \/ \E key \in KeyValues : KeyGet(key)
  \/ \E key \in KeyValues, v \in Vals : KeySet(key, v)
  \/ \E name \in {"get", "set"}, key \in KeyValues : KeyRaise(name, key)

SpecKey == KeyInit /\ [][SpecKeyNext]_vars

\* C32 (key derivation is total): for every key (null, undefined, a
\* primitive, an array, a plain object, a graph in which an object or an
\* array contains itself directly or indirectly) the derivation ends without
\* raising, so no get and no set of the cache raises.
C32_KeyTotal ==
  \A i \in DOMAIN trace : trace[i].name # "raise"

-----------------------------------------------------------------------------
\* One produce call: the working copy, the recipe's operations on the draft,
\* and the return (part_000:111-127).

SpecDraftNext ==
  \/ CallProduce
  \/ \E c \in Cmds : RecipeOp(c)
  \/ \E msg \in ErrMsgs : RecipeThrow(msg)
  \/ \E c \in Cmds : RecipeOverflow(c)
  \/ Return

SpecDraft == Init /\ [][SpecDraftNext]_vars

====
